---- MODULE Spec2Model ----
(***************************************************************************)
(* A model of the LOKS language runtime: the scanner (Lexer.getTokens),    *)
(* the bytecode loader (CodeBuilder), the truthiness tables of the two     *)
(* back-ends, the compiler's code generation and the stack VM.             *)
(*                                                                         *)
(* Each component has its own variable (a record holding the fields of the *)
(* Python object it models), its own initial predicate and its own         *)
(* next-state relation; a component's specification leaves the other       *)
(* components' variables at their idle values.                             *)
(***************************************************************************)
EXTENDS Integers, Sequences, FiniteSets, TLC

VARIABLES lexer, loader, truth, vm, analyser, parser, compiler, interp

vars == <<lexer, loader, truth, vm, analyser, parser, compiler, interp>>

(***************************************************************************)
(* Bounds of the model.                                                    *)
(***************************************************************************)
\* longest input string enumerated exhaustively over LexAlphabet
MaxInputLen == 2
\* the scanner's indices saturate here (they grow without limit only in a
\* comment loop that has run past the end of the input)
IdxCap == 8

Min(a, b) == IF a < b THEN a ELSE b

Last(s) == s[Len(s)]

Front(s) == SubSeq(s, 1, Len(s) - 1)

\* Python's None
None == "None"

(***************************************************************************)
(*                              THE SCANNER                                *)
(***************************************************************************)
NL == "\n"
DQ == "\""
SQ == "'"
\* the value _advance gives _curChar past the end of the input
EOFCHAR == "eof"

\* characters the enumerated inputs are built from
LexAlphabet == {"a", "1", ".", " ", NL, "$", "/", "*", SQ, DQ, "=", "<"}

RECURSIVE StringsUpTo(_)
StringsUpTo(n) ==
    IF n = 0 THEN {<<>>}
    ELSE LET shorter == StringsUpTo(n - 1)
         IN shorter \cup {Append(s, c) : s \in {t \in shorter : Len(t) = n - 1}, c \in LexAlphabet}

\* longer inputs that exercise identifiers, errors, strings and comments
NamedInputs ==
    { <<"a", "a", " ", "$", " ", "a", "1">>,
      <<"a", " ", "$", " ", "a">>,
      <<"$", " ", "a">>,
      <<"/", "/", "a", NL, "a">>,
      <<"/", "/", "a">>,
      <<"/", "*", "a", "*", "/", "a">>,
      <<"/", "*", "*", "/">>,
      <<"/", "*", "a">>,
      <<DQ, "a", NL, SQ, "a", DQ>>,
      <<SQ, "a", "a">>,
      <<DQ, "a", DQ>>,
      <<DQ, "a", DQ, NL, "a">>,
      <<DQ, NL, DQ, " ">>,
      <<"a", NL, NL, "a">>,
      <<SQ, "a", SQ, "a">>,
      <<DQ, SQ, DQ>>,
      <<SQ, "a", DQ, SQ>>,
      <<"1", ".", "1", ".", "1">>,
      <<"1", "1", ".", "1", " ">>,
      <<"<", "=", "a">>,
      <<"a", "1", "a", "=", "1">> }

LexInputs == StringsUpTo(MaxInputLen) \cup NamedInputs

\* str.isspace, str.isdigit, str.isalpha, str.isalnum on the values _curChar takes
\* ("eof" is a three-letter string: alphabetic; "" is none of them)
IsSpace(c) == c \in {" ", NL, "\t"}
IsDigit(c) == c \in {"0", "1", "2", "3", "4", "5", "6", "7", "8", "9"}
IsAlpha(c) == c \in {"a", "b", "c", "d", "e", "f", EOFCHAR}
IsAlnum(c) == IsAlpha(c) \/ IsDigit(c)

\* `c in NUM` with NUM = '0123456789.': a substring test
InNUM(c) == IsDigit(c) \/ c = "." \/ c = ""

\* tokenDict: the TokenType members before VAR, by value
TwoCharTokens ==
    {<<"<", "=">>, <<">", "=">>, <<"=", "=">>, <<"!", "=">>}

OneCharTokens ==
    {"(", ")", "[", "]", "{", "}", ";", ",", DQ, SQ, "<", ">", "!", "+", "-", "*", "/", "%", "="}

\* keywordDict: the TokenType members from VAR on (the ones the alphabet can spell)
keywordDict == {<<"i", "f">>, <<"o", "r">>}

\* tokenDict[val] for the two-character operators
TwoCharType(c, p) ==
    IF <<c, p>> = <<"<", "=">> THEN "LESS_THAN_EQ"
    ELSE IF <<c, p>> = <<">", "=">> THEN "GREATER_THAN_EQ"
    ELSE IF <<c, p>> = <<"=", "=">> THEN "EQUAL"
    ELSE "NOT_EQUAL"

\* token and error payloads: a Python str is a sequence of characters
StrVal(s) == [k |-> "str", s |-> s]
IntVal(n) == [k |-> "int", v |-> n]
FloatVal(lexeme) == [k |-> "float", lexeme |-> lexeme]
NoneVal == [k |-> "None"]

Token(t, v, l, pos) == [type |-> t, value |-> v, line |-> l, position |-> pos]

\* msg is the message's fixed text, arg the character formatted into it
Error(typ, msg, line, pos) == [type |-> typ, msg |-> msg[1], arg |-> msg[2], line |-> line, pos |-> pos]

IllegalCharError(msg, line, pos) == Error("Illegal Character Error", msg, line, pos)

SyntaxErr(msg, line, pos) == Error("Syntax Error", msg, line, pos)

\* Lexer.__init__
LexerNew(inp) ==
    [ inpstr    |-> inp,
      curAbsIdx |-> 0,
      curIdx    |-> 0,
      curLine   |-> 1,
      curChar   |-> IF Len(inp) # 0 THEN inp[1] ELSE "",
      tokList   |-> <<>>,
      errList   |-> <<>>,
      hadError  |-> FALSE,
      inString  |-> FALSE,
      pc        |-> "loop",
      ret       |-> "pending",
      spin      |-> FALSE ]

\* Lexer._advance; the indices saturate at IdxCap
LexAdvanceBy(L, advBy) ==
    LET a == Min(L.curAbsIdx + advBy, IdxCap)
        i == Min(L.curIdx + advBy, IdxCap)
    IN IF a >= Len(L.inpstr)
       THEN [L EXCEPT !.curAbsIdx = a, !.curIdx = i, !.curChar = EOFCHAR]
       ELSE LET c == L.inpstr[a + 1]
            IN IF c = NL /\ ~L.inString
               THEN [L EXCEPT !.curAbsIdx = a, !.curIdx = 0, !.curChar = c,
                              !.curLine = L.curLine + 1]
               ELSE [L EXCEPT !.curAbsIdx = a, !.curIdx = i, !.curChar = c]

LexAdvance(L) == LexAdvanceBy(L, 1)

\* Lexer._peek
LexPeek(L) ==
    IF L.curAbsIdx + 1 >= Len(L.inpstr) THEN EOFCHAR ELSE L.inpstr[L.curAbsIdx + 2]

\* len() of a Python string held as a sequence of characters ("eof" counts 3)
RECURSIVE PyStrLen(_)
PyStrLen(s) ==
    IF s = <<>> THEN 0
    ELSE (IF s[1] = EOFCHAR THEN 3 ELSE 1) + PyStrLen(Tail(s))

\* int(number) of a string of decimal digits
RECURSIVE PyInt(_)
PyInt(s) ==
    IF s = <<>> THEN 0
    ELSE PyInt(Front(s)) * 10
         + (CHOOSE d \in 0..9 : <<"0", "1", "2", "3", "4", "5", "6", "7", "8", "9">>[d + 1] = Last(s))

\* Lexer._getNumber: the loop, then the conversion; <<lexer, value>>
RECURSIVE GetNumberLoop(_, _, _)
GetNumberLoop(L, number, dot_count) ==
    IF ~InNUM(L.curChar) THEN <<L, number, dot_count>>
    ELSE LET n == Append(number, L.curChar)
             d == IF L.curChar = "." THEN dot_count + 1 ELSE dot_count
         IN IF LexPeek(L) = EOFCHAR THEN <<L, n, d>>
            ELSE IF ~(IsDigit(LexPeek(L)) \/ LexPeek(L) = ".") THEN <<L, n, d>>
            ELSE GetNumberLoop(LexAdvance(L), n, d)

LexGetNumber(L) ==
    LET r == GetNumberLoop(L, <<>>, 0)
        L1 == r[1]
    IN IF r[3] = 1 THEN <<L1, FloatVal(r[2])>>
       ELSE IF r[3] = 0 THEN <<L1, IntVal(PyInt(r[2]))>>
       ELSE << [L1 EXCEPT !.hadError = TRUE,
                          !.errList = Append(@, SyntaxErr(<<"Number contains more than 1 decimal point(s)", "">>,
                                                          L1.curLine, L1.curIdx))],
               NoneVal >>

\* Lexer._getID; <<lexer, identifier>>
RECURSIVE GetIDLoop(_, _)
GetIDLoop(L, identifier) ==
    IF ~(IsAlnum(L.curChar) \/ L.curChar = "_") THEN <<L, identifier>>
    ELSE LET id == Append(identifier, L.curChar)
         IN IF LexPeek(L) = EOFCHAR THEN <<L, id>>
            ELSE IF ~IsAlnum(LexPeek(L)) /\ LexPeek(L) # "_" THEN <<L, id>>
            ELSE GetIDLoop(LexAdvance(L), id)

LexGetID(L) == GetIDLoop(L, <<>>)

\* Lexer._getString; <<lexer, strn>>
RECURSIVE GetStringLoop(_, _)
GetStringLoop(L, strn) ==
    IF L.curChar \in {SQ, DQ} \/ L.curChar = EOFCHAR THEN <<L, strn>>
    ELSE GetStringLoop(LexAdvance(L), Append(strn, L.curChar))

LexGetString(L) ==
    LET L0 == [L EXCEPT !.inString = TRUE]
        initialPos == <<L0.curLine, L0.curIdx>>
        r == GetStringLoop(LexAdvance(L0), <<>>)
        L1 == r[1]
        L2 == IF L1.curChar = EOFCHAR
              THEN [L1 EXCEPT !.hadError = TRUE,
                              !.errList = Append(@, SyntaxErr(<<"Unmatched Quote", "">>,
                                                              initialPos[1], initialPos[2]))]
              ELSE L1
    IN << [LexAdvance(L2) EXCEPT !.inString = FALSE], r[2] >>

KeywordType(id) == IF id = <<"i", "f">> THEN "IF" ELSE "OR"

\* getTokens, lines 100-148: the if/elif chain of one iteration of the main loop
LexChain(L) ==
    IF IsSpace(L.curChar) THEN LexAdvance(L)
    ELSE IF L.curChar \in {SQ, DQ}
    THEN LET r == LexGetString(L)
         IN [r[1] EXCEPT !.tokList = Append(@, Token("STRING", StrVal(r[2]), r[1].curLine, r[1].curIdx))]
    ELSE IF <<L.curChar, LexPeek(L)>> \in TwoCharTokens
    THEN LexAdvanceBy([L EXCEPT !.tokList = Append(@, Token(TwoCharType(L.curChar, LexPeek(L)),
                                                           StrVal(<<L.curChar, LexPeek(L)>>),
                                                           L.curLine, L.curIdx))], 2)
    ELSE IF L.curChar \in OneCharTokens
    THEN LexAdvance([L EXCEPT !.tokList = Append(@, Token(L.curChar, StrVal(<<L.curChar>>),
                                                         L.curLine, L.curIdx))])
    ELSE IF IsDigit(L.curChar)
    THEN LET r == LexGetNumber(L)
         IN LexAdvance([r[1] EXCEPT !.tokList = Append(@, Token("NUMBER", r[2],
                                                               r[1].curLine, r[1].curIdx))])
    ELSE IF IsAlpha(L.curChar) \/ L.curChar = "_"
    THEN LET r == LexGetID(L)
             pos == r[1].curIdx - PyStrLen(r[2])
         IN LexAdvance([r[1] EXCEPT !.tokList =
                Append(@, IF r[2] \in keywordDict
                          THEN Token(KeywordType(r[2]), StrVal(r[2]), r[1].curLine, pos)
                          ELSE Token("ID", StrVal(r[2]), r[1].curLine, pos))])
    ELSE LexAdvance([L EXCEPT !.hadError = TRUE,
                              !.errList = Append(@, IllegalCharError(<<"Unexpected character", L.curChar>>,
                                                                     L.curLine, L.curIdx))])

\* getTokens, lines 150-152: the EOF token and the return, inside the while body
LexAppendEOFAndReturn(L) ==
    [L EXCEPT !.tokList = Append(@, Token("EOF", StrVal(<<>>), L.curLine, L.curIdx)),
              !.pc = "done", !.ret = "tokList"]

\* a comment loop that no longer changes the scanner (its indices have saturated
\* past the end of the input) keeps running: spin tells its iterations apart
LexSpin(L, L1) == IF L1 = L THEN [L1 EXCEPT !.spin = ~L.spin] ELSE L1

\* getTokens, lines 77-88: the head of the main loop
LexLoopHead ==
    /\ lexer.pc = "loop"
    /\ lexer' =
         IF lexer.curChar = EOFCHAR
         THEN [lexer EXCEPT !.pc = "done", !.ret = None]
         ELSE IF lexer.curChar = "/" /\ LexPeek(lexer) = "/"
         THEN [lexer EXCEPT !.pc = "lineComment"]
         ELSE IF lexer.curChar = "/" /\ LexPeek(lexer) = "*"
         THEN [lexer EXCEPT !.pc = "blockComment"]
         ELSE LexAppendEOFAndReturn(LexChain(lexer))
    /\ UNCHANGED <<loader, truth, vm, analyser, parser, compiler, interp>>

\* getTokens, lines 83-85: one iteration of the single-line comment loop, or its exit
LexLineComment ==
    /\ lexer.pc = "lineComment"
    /\ lexer' =
         IF lexer.curChar # NL
         THEN LexSpin(lexer, LexAdvance(lexer))
         ELSE [lexer EXCEPT !.pc = "loop"]
    /\ UNCHANGED <<loader, truth, vm, analyser, parser, compiler, interp>>

\* getTokens, lines 89-96: one iteration of the multi-line comment loop; on its
\* break the iteration of the main loop goes on with the chain
LexBlockComment ==
    /\ lexer.pc = "blockComment"
    /\ lexer' =
         LET L1 == LexAdvance(lexer)
         IN IF L1.curChar # "*" THEN LexSpin(lexer, L1)
            ELSE LET L2 == LexAdvance(L1)
                 IN IF L2.curChar # "/" THEN LexSpin(lexer, L2)
                    ELSE LexAppendEOFAndReturn(LexChain(LexAdvance(L2)))
    /\ UNCHANGED <<loader, truth, vm, analyser, parser, compiler, interp>>

(***************************************************************************)
(*                     THE CODE OBJECT AND ITS LOADER                      *)
(***************************************************************************)
\* Tag (code.py)
CONSTANT_Integer == 3
CONSTANT_Double == 6
CONSTANT_String == 8

\* Code.magic_number = 0x4d69686f
magic_number == 1298753647

cp_info(t, v) == [tag |-> t, info |-> v]

func_info(argc, code) == [argc |-> argc, code |-> code]

\* a Python int too wide for the checker's integers: sign and magnitude, the
\* magnitude as eight base-256 digits, most significant first
BigInt(neg, mag) == [k |-> "int", neg |-> neg, mag |-> mag]

\* mag - 1 for a magnitude that is not zero
RECURSIVE DigitsDec(_)
DigitsDec(d) ==
    IF Last(d) > 0 THEN Append(Front(d), Last(d) - 1)
    ELSE Append(DigitsDec(Front(d)), 255)

\* mag + 1 modulo 256^Len
RECURSIVE DigitsInc(_)
DigitsInc(d) ==
    IF d = <<>> THEN <<>>
    ELSE IF Last(d) < 255 THEN Append(Front(d), Last(d) + 1)
    ELSE Append(DigitsInc(Front(d)), 0)

\* mag ^ 0xff..ff
DigitsFlip(d) == [i \in 1..Len(d) |-> 255 - d[i]]

AllZero(d) == \A i \in 1..Len(d) : d[i] = 0

\* a Python float: the fields of its IEEE-754 binary64 pattern (sign bit, biased
\* exponent, the 52 fraction bits as <<4 bits, 6 bytes>>)
PyFloat(sign, e, frac) == [k |-> "float", sign |-> sign, e |-> e, frac |-> frac]

\* d * 2 for a digit string whose top digit has room
RECURSIVE DigitsShl1(_)
DigitsShl1(d) ==
    IF d = <<>> THEN <<>>
    ELSE LET lo == DigitsShl1(Front(d))
         IN Append(IF Last(d) >= 128 THEN DigitsInc(lo) ELSE lo, (Last(d) * 2) % 256)

\* float(m) for an integer 0 < m < 2^52 held as <<4 bits, 6 bytes>>: shift left
\* until bit 52 is the leading one, drop it, and count the exponent down
RECURSIVE FloatOfInt(_, _)
FloatOfInt(m, e) ==
    IF m[1] >= 16 THEN PyFloat(0, e, [m EXCEPT ![1] = @ - 16])
    ELSE FloatOfInt(DigitsShl1(m), e - 1)

\* m / 10^e is at most 2^-1075, and rounds to 0.0, for every m < 2^52 from this e on
Pow10Underflow == 340

\* Python's mantissa/(10**exp) for 0 <= mantissa < 2^52 and 0 <= exp < 2048.
\* The quotient is exact when exp = 0 and is below half the least subnormal
\* (so rounds to 0.0) when exp >= Pow10Underflow; between the two the correctly
\* rounded quotient is left as the unevaluated pair.
PyTrueDivPow10(mantissa, exp) ==
    IF AllZero(mantissa) \/ exp >= Pow10Underflow THEN PyFloat(0, 0, <<0, 0, 0, 0, 0, 0, 0>>)
    ELSE IF exp = 0 THEN FloatOfInt(mantissa, 1023 + 52)
    ELSE [k |-> "float", sign |-> 0, num |-> mantissa, den10 |-> exp]

\* -d
PyNeg(d) == [d EXCEPT !.sign = 1 - @]

\* CodeBuilder state: the unread bytes, the Code object being built, the
\* exception that ended the load (if any)
Builder(arr) == [code_array |-> arr, const_pool |-> <<>>, func_pool |-> <<>>, err |-> "none"]

Raise(B, e) == [B EXCEPT !.err = e]

\* CodeBuilder._removeFromFront: a slice, which never raises
RemoveFromFront(B, n) ==
    [B EXCEPT !.code_array = SubSeq(@, Min(n, Len(@)) + 1, Len(@))]

\* (arr[0] << 8) + arr[1]
U16(arr) == arr[1] * 256 + arr[2]

\* _initCode without the comparison with Code.magic_number
InitCode_NoMagicCheck(B) ==
    IF Len(B.code_array) < 10 THEN Raise(B, "InvalidBytecodeError")
    ELSE RemoveFromFront(B, 4)

\* CodeBuilder._initCode
InitCode(B) ==
    IF Len(B.code_array) < 10 THEN Raise(B, "InvalidBytecodeError")
    ELSE LET a == B.code_array
             magic == a[1] * 16777216 + a[2] * 65536 + a[3] * 256 + a[4]
         IN IF magic # magic_number THEN Raise(B, "InvalidBytecodeError")
            ELSE RemoveFromFront(B, 4)

\* _makeInteger without the subtraction of 1 in front of the flip
MakeInteger_NoDecrement(B) ==
    IF Len(B.code_array) < 8 THEN Raise(B, "IndexError")
    ELSE LET i == SubSeq(B.code_array, 1, 8)
             s_test == i[1] \div 16
             v == IF s_test > 7
                  THEN BigInt(TRUE, DigitsFlip(i))
                  ELSE BigInt(FALSE, i)
             B1 == RemoveFromFront(B, 8)
         IN [B1 EXCEPT !.const_pool = Append(@, cp_info(CONSTANT_Integer, v))]

\* CodeBuilder._makeInteger
MakeInteger(B) ==
    IF Len(B.code_array) < 8 THEN Raise(B, "IndexError")
    ELSE LET i == SubSeq(B.code_array, 1, 8)
             s_test == i[1] \div 16
             v == IF s_test > 7
                  THEN BigInt(TRUE, DigitsFlip(DigitsDec(i)))
                  ELSE BigInt(FALSE, i)
             B1 == RemoveFromFront(B, 8)
         IN [B1 EXCEPT !.const_pool = Append(@, cp_info(CONSTANT_Integer, v))]

\* CodeBuilder._makeDouble
MakeDouble(B) ==
    IF Len(B.code_array) < 8 THEN Raise(B, "IndexError")
    ELSE LET v == B.code_array
             sign == v[1] \div 128
             exp == ((v[1] % 128) * 256 + v[2]) \div 16
             mantissa == <<v[2] % 16, v[3], v[4], v[5], v[6], v[7], v[8]>>
             d0 == PyTrueDivPow10(mantissa, exp)
             d == IF sign = 1 THEN PyNeg(d0) ELSE d0
             B1 == RemoveFromFront(B, 8)
         IN [B1 EXCEPT !.const_pool = Append(@, cp_info(CONSTANT_Double, d))]

\* CodeBuilder._makeString
RECURSIVE MakeStringLoop(_, _)
MakeStringLoop(B, str) ==
    IF Len(B.code_array) = 0 THEN Raise(B, "IndexError")
    ELSE IF B.code_array[1] # 0
    THEN MakeStringLoop(RemoveFromFront(B, 1), Append(str, B.code_array[1]))
    ELSE LET B1 == RemoveFromFront(B, 1)
         IN [B1 EXCEPT !.const_pool = Append(@, cp_info(CONSTANT_String, [k |-> "str", s |-> str]))]

MakeString(B) == MakeStringLoop(B, <<>>)

\* CodeBuilder._makeConstPool: the loop over cp_count entries
RECURSIVE ConstPoolLoop(_, _)
ConstPoolLoop(B, left) ==
    IF left = 0 \/ B.err # "none" THEN B
    ELSE IF Len(B.code_array) = 0 THEN Raise(B, "IndexError")
    ELSE LET t == B.code_array[1]
             B1 == RemoveFromFront(B, 1)
         IN ConstPoolLoop(IF t = CONSTANT_Integer THEN MakeInteger(B1)
                          ELSE IF t = CONSTANT_Double THEN MakeDouble(B1)
                          ELSE IF t = CONSTANT_String THEN MakeString(B1)
                          ELSE B1,
                          left - 1)

MakeConstPool(B) ==
    IF Len(B.code_array) < 2 THEN Raise(B, "IndexError")
    ELSE ConstPoolLoop(RemoveFromFront(B, 2), U16(B.code_array))

\* CodeBuilder._makeFunc: <<builder, func_info>>
RECURSIVE MakeFuncCode(_, _, _)
MakeFuncCode(B, code, left) ==
    IF left = 0 THEN <<B, code>>
    ELSE IF Len(B.code_array) = 0 THEN <<Raise(B, "IndexError"), code>>
    ELSE MakeFuncCode(RemoveFromFront(B, 1), Append(code, B.code_array[1]), left - 1)

MakeFunc(B) ==
    IF Len(B.code_array) < 2 THEN <<Raise(B, "IndexError"), func_info(0, <<>>)>>
    ELSE LET argc == U16(B.code_array)
             B1 == RemoveFromFront(B, 2)
         IN IF Len(B1.code_array) < 2 THEN <<Raise(B1, "IndexError"), func_info(argc, <<>>)>>
            ELSE LET r == MakeFuncCode(RemoveFromFront(B1, 2), <<>>, U16(B1.code_array))
                 IN <<r[1], func_info(argc, r[2])>>

\* CodeBuilder._makeFuncPool
RECURSIVE FuncPoolLoop(_, _)
FuncPoolLoop(B, left) ==
    IF left = 0 \/ B.err # "none" THEN B
    ELSE LET r == MakeFunc(B)
         IN FuncPoolLoop(IF r[1].err # "none" THEN r[1]
                         ELSE [r[1] EXCEPT !.func_pool = Append(@, r[2])],
                         left - 1)

MakeFuncPool(B) ==
    IF Len(B.code_array) < 2 THEN Raise(B, "IndexError")
    ELSE FuncPoolLoop(RemoveFromFront(B, 2), U16(B.code_array))

(***************************************************************************)
(* The binary image of a code object, laid out field by field as the       *)
(* format section of the language specification gives it (the repository   *)
(* has no serializer).                                                     *)
(***************************************************************************)
SerU16(n) == <<n \div 256, n % 256>>

SerMagic ==
    <<magic_number \div 16777216, (magic_number \div 65536) % 256,
      (magic_number \div 256) % 256, magic_number % 256>>

\* i64 big-endian two's complement
SerInteger(v) == IF v.neg THEN DigitsInc(DigitsFlip(v.mag)) ELSE v.mag

\* IEEE-754 double, big-endian
SerDouble(f) ==
    <<f.sign * 128 + f.e \div 16, (f.e % 16) * 16 + f.frac[1]>> \o SubSeq(f.frac, 2, 7)

\* null-terminated ASCII bytes
SerString(v) == v.s \o <<0>>

SerConst(c) ==
    <<c.tag>> \o (IF c.tag = CONSTANT_Integer THEN SerInteger(c.info)
                  ELSE IF c.tag = CONSTANT_Double THEN SerDouble(c.info)
                  ELSE SerString(c.info))

SerFunc(f) == SerU16(f.argc) \o SerU16(Len(f.code)) \o f.code

RECURSIVE SerConsts(_)
SerConsts(pool) == IF pool = <<>> THEN <<>> ELSE SerConst(Head(pool)) \o SerConsts(Tail(pool))

RECURSIVE SerFuncs(_)
SerFuncs(pool) == IF pool = <<>> THEN <<>> ELSE SerFunc(Head(pool)) \o SerFuncs(Tail(pool))

Serialize(code) ==
    SerMagic \o SerU16(Len(code.const_pool)) \o SerConsts(code.const_pool)
             \o SerU16(Len(code.func_pool)) \o SerFuncs(code.func_pool)

(***************************************************************************)
(* The code objects and images the loader is run on.                       *)
(***************************************************************************)
\* most entries in the two pools of a code object, taken together
MaxPoolEntries == 3

Zero7 == <<0, 0, 0, 0, 0, 0, 0>>

\* 1, -1; 0.0, 1.0; "a"
ConstSet ==
    { cp_info(CONSTANT_Integer, BigInt(FALSE, <<0, 0, 0, 0, 0, 0, 0, 1>>)),
      cp_info(CONSTANT_Integer, BigInt(TRUE, <<0, 0, 0, 0, 0, 0, 0, 1>>)),
      cp_info(CONSTANT_Double, PyFloat(0, 0, Zero7)),
      cp_info(CONSTANT_Double, PyFloat(0, 1023, Zero7)),
      cp_info(CONSTANT_String, [k |-> "str", s |-> <<97>>]) }

FuncSet == { func_info(0, <<>>), func_info(1, <<42, 0>>) }

RECURSIVE SeqsUpTo(_, _)
SeqsUpTo(S, n) ==
    IF n = 0 THEN {<<>>}
    ELSE LET shorter == SeqsUpTo(S, n - 1)
         IN shorter \cup {Append(q, x) : q \in {r \in shorter : Len(r) = n - 1}, x \in S}

\* every code object has its main function
CodeObjects ==
    { c \in { [const_pool |-> cp, func_pool |-> fp] :
                cp \in SeqsUpTo(ConstSet, MaxPoolEntries - 1),
                fp \in SeqsUpTo(FuncSet, MaxPoolEntries) \ {<<>>} } :
        Len(c.const_pool) + Len(c.func_pool) <= MaxPoolEntries }

\* first bytes put in place of the magic number's
BadFirstBytes == {0, 78}

\* the images made from one code object: its own, each prefix that keeps the
\* magic number, and the same with the first or the fourth byte changed
ImagesOf(code) ==
    LET full == Serialize(code)
        cuts == {SubSeq(full, 1, n) : n \in 4..Len(full)}
    IN cuts \cup {[im EXCEPT ![1] = b] : im \in cuts, b \in BadFirstBytes}
            \cup {[im EXCEPT ![4] = (@ + 1) % 256] : im \in cuts}

\* the 8-byte patterns an Integer entry is built from: the first byte on both
\* sides of the sign bit, the last byte at the ends of its range, every
\* byte between them all zeros or all ones
IntegerPatterns ==
    {<<b1>> \o mid \o <<b8>> : b1 \in {0, 127, 128, 255}, b8 \in {0, 1, 255},
                              mid \in [1..6 -> {0, 255}]}

\* the bytes that follow the pattern in the image
IntegerRests == {<<>>, <<255>>}

\* a loader that has read the tag of an Integer entry
IntegerNew(codeArr) ==
    [orig |-> [const_pool |-> <<>>, func_pool |-> <<>>], image |-> codeArr, pc |-> "_makeInteger",
     code_array |-> codeArr, const_pool |-> <<>>, func_pool |-> <<>>, err |-> "none"]

\* tag bytes that are none of CONSTANT_Integer, CONSTANT_Double, CONSTANT_String
OtherTags == {0, 1, 7, 255}

\* the images of a code object with the tag byte of its first constant as it is
\* or replaced by another tag; the entry's bytes behind the tag stay
TagImagesOf(code) ==
    LET full == Serialize(code)
    IN {full} \cup (IF code.const_pool = <<>> THEN {}
                    ELSE {[full EXCEPT ![7] = t] : t \in OtherTags})

LoaderNew(code, codeArr) ==
    [orig |-> code, image |-> codeArr, pc |-> "_initCode",
     code_array |-> codeArr, const_pool |-> <<>>, func_pool |-> <<>>, err |-> "none"]

\* the CodeBuilder fields of the loader, and the loader after a step of getCodeObj
BuilderOf(l) ==
    [code_array |-> l.code_array, const_pool |-> l.const_pool,
     func_pool |-> l.func_pool, err |-> l.err]

LoaderStep(B, nextpc) ==
    [loader EXCEPT !.code_array = B.code_array, !.const_pool = B.const_pool,
                   !.func_pool = B.func_pool, !.err = B.err,
                   !.pc = IF B.err # "none" THEN "raised" ELSE nextpc]

\* getCodeObj: self._initCode()
LoaderInitCode ==
    /\ loader.pc = "_initCode"
    /\ loader' = LoaderStep(InitCode(BuilderOf(loader)), "_makeConstPool")
    /\ UNCHANGED <<lexer, truth, vm, analyser, parser, compiler, interp>>

\* getCodeObj: self._makeConstPool()
LoaderMakeConstPool ==
    /\ loader.pc = "_makeConstPool"
    /\ loader' = LoaderStep(MakeConstPool(BuilderOf(loader)), "_makeFuncPool")
    /\ UNCHANGED <<lexer, truth, vm, analyser, parser, compiler, interp>>

\* getCodeObj: self._makeFuncPool(); return self._code
LoaderMakeFuncPool ==
    /\ loader.pc = "_makeFuncPool"
    /\ loader' = LoaderStep(MakeFuncPool(BuilderOf(loader)), "returned")
    /\ UNCHANGED <<lexer, truth, vm, analyser, parser, compiler, interp>>

\* _makeConstPool's call of self._makeInteger() behind the tag CONSTANT_Integer
LoaderMakeInteger ==
    /\ loader.pc = "_makeInteger"
    /\ loader' = LoaderStep(MakeInteger(BuilderOf(loader)), "made")
    /\ UNCHANGED <<lexer, truth, vm, analyser, parser, compiler, interp>>

(***************************************************************************)
(*                    VALUES AND THEIR TRUTHINESS                          *)
(***************************************************************************)
\* Python strings held by the language's values: sequences of code points
STR_true == <<116, 114, 117, 101>>
STR_false == <<102, 97, 108, 115, 101>>
STR_nil == <<110, 105, 108>>

\* types.py: the LObject classes
Number(val) == [type |-> "Number", value |-> val]

Nil == [type |-> "Nil", value |-> StrVal(STR_nil)]

Boolean(val) == [type |-> "Boolean", value |-> StrVal(val)]

String(val) == [type |-> "String", value |-> StrVal(val)]

Array(els) == [type |-> "Array", arr |-> els]

Function(n, args, b) == [type |-> "Function", name |-> n, args |-> args, block |-> b]

\* type(el).__name__
GetObjType(el) == el.type

\* Python's x == 0 for an int or a float x
PyEqZero(x) ==
    IF x.k = "int" THEN x.v = 0
    ELSE IF "p" \in DOMAIN x THEN x.p = 0
    ELSE x.e = 0 /\ AllZero(x.frac)

\* VirtualMachine._isTruthy
VM_isTruthy(obj) ==
    IF GetObjType(obj) = "Number" THEN ~PyEqZero(obj.value)
    ELSE IF GetObjType(obj) = "String" THEN Len(obj.value.s) # 0
    ELSE IF GetObjType(obj) = "Nil" THEN FALSE
    ELSE IF GetObjType(obj) = "Boolean" THEN obj.value # StrVal(STR_false)
    ELSE IF GetObjType(obj) = "Array" THEN Len(obj.arr) # 0
    ELSE TRUE

\* Interpeter._isTruthy (the tree-walker)
Interp_isTruthy(obj) ==
    IF GetObjType(obj) = "Number" THEN ~PyEqZero(obj.value)
    ELSE IF GetObjType(obj) = "String" THEN Len(obj.value.s) # 0
    ELSE IF GetObjType(obj) = "Nil" THEN FALSE
    ELSE IF GetObjType(obj) = "Boolean" THEN obj.value # StrVal(STR_false)
    ELSE IF GetObjType(obj) = "Array" THEN Len(obj.arr) # 0
    ELSE IF GetObjType(obj) = "Function" THEN FALSE
    ELSE TRUE

\* The truthiness table of the language specification: Nil, Boolean false,
\* Number zero, the empty String, the empty Array and every Function are falsy.
SpecTruthy(obj) ==
    ~ \/ obj.type = "Nil"
      \/ obj.type = "Boolean" /\ obj.value.s = STR_false
      \/ obj.type = "Number" /\ PyEqZero(obj.value)
      \/ obj.type = "String" /\ obj.value.s = <<>>
      \/ obj.type = "Array" /\ obj.arr = <<>>
      \/ obj.type = "Function"

\* largest magnitude of the integer Numbers enumerated
MaxNum == 3

ScalarValues ==
    {Number(IntVal(n)) : n \in -MaxNum..MaxNum}
    \cup {Number(PyFloat(sg, e, Zero7)) : sg \in {0, 1}, e \in {0, 1023}}
    \cup {Number(PyFloat(0, 0, <<0, 0, 0, 0, 0, 0, 1>>))}
    \cup {String(str) : str \in {<<>>, <<97>>, STR_false, STR_nil, <<48>>}}
    \cup {Boolean(STR_true), Boolean(STR_false), Nil}

TruthValues ==
    ScalarValues
    \cup {Array(<<>>), Array(<<Nil>>), Array(<<Number(IntVal(0))>>),
          Array(<<Array(<<>>)>>), Array(<<Boolean(STR_false), String(<<>>)>>)}
    \cup {Function("f", <<>>, "block"), Function("g", <<"a", "b">>, "block")}

\* a Python bool returned to the caller
PyBool(b) == IF b THEN "True" ELSE "False"

TruthNew(obj) == [obj |-> obj, vm |-> "unset", interp |-> "unset"]

\* the VM evaluates a condition on the value
TruthVM ==
    /\ truth.vm = "unset"
    /\ truth' = [truth EXCEPT !.vm = PyBool(VM_isTruthy(truth.obj))]
    /\ UNCHANGED <<lexer, loader, vm, analyser, parser, compiler, interp>>

\* the tree-walker evaluates a condition on the value
TruthInterp ==
    /\ truth.interp = "unset"
    /\ truth' = [truth EXCEPT !.interp = PyBool(Interp_isTruthy(truth.obj))]
    /\ UNCHANGED <<lexer, loader, vm, analyser, parser, compiler, interp>>

(***************************************************************************)
(*                            THE COMPILER                                 *)
(***************************************************************************)
\* instruction.py: opcode
opcode ==
    [END |-> 255, LOAD_NIL |-> 1, LOAD_TRUE |-> 2, LOAD_FALSE |-> 3, LOAD_CONST |-> 100,
     BINARY_ADD |-> 23, BINARY_SUBTRACT |-> 24, BINARY_MULTIPLY |-> 20,
     BINARY_DIVIDE |-> 21, BINARY_MODULO |-> 22, BINARY_AND |-> 64, BINARY_OR |-> 66,
     UNARY_NOT |-> 12, UNARY_NEGATIVE |-> 11, STORE_LOCAL |-> 90, STORE_GLOBAL |-> 97,
     BIPUSH |-> 16, LOAD_LOCAL |-> 82, LOAD_GLOBAL |-> 116, BUILD_LIST |-> 103,
     BINARY_SUBSCR |-> 25, STORE_SUBSCR |-> 60, CMPEQ |-> 159, CMPNE |-> 160,
     CMPGT |-> 163, CMPLT |-> 161, CMPGE |-> 162, CMPLE |-> 164,
     POP_JMP_IF_TRUE |-> 112, POP_JMP_IF_FALSE |-> 111, GOTO |-> 167,
     CALL_FUNCTION |-> 131, CALL_NATIVE |-> 132, RETURN_VALUE |-> 83]

\* instruction.py: opcodeSizeDict
opcodeSizeDict ==
    [n \in DOMAIN opcode |->
        IF n \in {"LOAD_CONST", "BUILD_LIST", "POP_JMP_IF_TRUE", "POP_JMP_IF_FALSE", "GOTO"} THEN 3
        ELSE IF n \in {"STORE_LOCAL", "STORE_GLOBAL", "BIPUSH", "LOAD_LOCAL", "LOAD_GLOBAL",
                       "CALL_FUNCTION", "CALL_NATIVE"} THEN 2
        ELSE 1]

\* stdlib.py: builtinFunctionInfo, name -> (index, argc).  The dict display
\* opens with a string literal that Python joins to the literal "print" after
\* it, so the first key is that whole text and "print" is no key.
builtinFunctionInfo ==
    [println |-> <<1, 1>>, input |-> <<2, 1>>, len |-> <<3, 1>>, int |-> <<4, 1>>,
     str |-> <<5, 1>>, isinteger |-> <<6, 1>>]

\* abstractSyntaxTree.py: the node classes (type is the class name; token is the
\* token's value: an int for a NumberNode, the name for an IdentifierNode)
PrimaryNode(type, tok) == [type |-> type, token |-> tok]

\* an absent node (Python's None)
NoneNode == [type |-> "NoneType"]

BinOpNode(type, l, r) == [type |-> type, left |-> l, right |-> r]

VarDeclNode(id, exprNode) == [type |-> "VarDeclNode", id |-> id, exprNode |-> exprNode]

AssignNode(lvalue, exprNode) == [type |-> "AssignNode", lvalue |-> lvalue, exprNode |-> exprNode]

BlockNode(stmtlist) == [type |-> "BlockNode", stmtList |-> stmtlist]

ReturnNode(expr) == [type |-> "ReturnNode", expr |-> expr]

FunDeclNode(id, pList, blk) ==
    [type |-> "FunDeclNode", id |-> id, paramList |-> pList, blockNode |-> blk]

FunctionCallNode(name, arg) == [type |-> "FunctionCallNode", nameNode |-> name, argList |-> arg]

ProgramNode(declList) == [type |-> "ProgramNode", declarationList |-> declList]

UnaryOpNode(type, n) == [type |-> type, node |-> n]

ArrayNode(l) == [type |-> "ArrayNode", elements |-> l]

ArrayAccessNode(b, idx) == [type |-> "ArrayAccessNode", base |-> b, index |-> idx]

ConditionalNode(cond, stmt) == [type |-> "ConditionalNode", condition |-> cond, statement |-> stmt]

IfNode(ifBlock, elsifBlocks, elseBlock) ==
    [type |-> "IfNode", ifBlock |-> ifBlock, elsifBlocks |-> elsifBlocks, elseBlock |-> elseBlock]

\* a token with its place
TokenAt(value, pos) == [token |-> value, pos |-> pos]

NoToken == TokenAt("", 0)

WhileNode(cond, stmt) == [type |-> "WhileNode", condition |-> cond, statement |-> stmt]

BreakNode(pos) == [type |-> "BreakNode", tok |-> TokenAt("break", pos)]

ContinueNode(pos) == [type |-> "ContinueNode", tok |-> TokenAt("continue", pos)]

\* _for: the body of the loop with the update put in front of its statements
ForBlock_UpdateFirst(upd, body) ==
    IF upd # NoneNode
    THEN IF body.type = "BlockNode"
         THEN BlockNode(<<upd>> \o body.stmtList)
         ELSE BlockNode(<<upd, body>>)
    ELSE body

\* _for: the body of the loop, the update appended to the body's statements
ForBlock(upd, body) ==
    IF upd # NoneNode
    THEN IF body.type = "BlockNode"
         THEN BlockNode(Append(body.stmtList, upd))
         ELSE BlockNode(<<body, upd>>)
    ELSE body

\* _for: the block returned, the initialiser and a while loop whose condition
\* is true when the for has none
ForResult(decl, cond, blk) ==
    BlockNode((IF decl # NoneNode THEN <<decl>> ELSE <<>>)
              \o <<WhileNode(IF cond # NoneNode THEN cond ELSE PrimaryNode("TrueNode", "true"),
                             blk)>>)

\* one line of a function's text: a mnemonic and its operand (a number, a name
\* or nothing)
Ins(op, arg) == [op |-> op, arg |-> arg]

NoArg == [k |-> "none"]
NumArg(n) == [k |-> "num", v |-> n]
NameArg(n) == [k |-> "name", v |-> n]

\* Compiler.__init__ and _initCode: a function's text is its "fn"/"argc" header
\* and its lines
CompilerNew ==
    [constantPool |-> <<>>,
     functions |-> <<[name |-> "main", argc |-> 0, text |-> <<>>]>>,
     currentFn |-> "main", globalVars |-> <<>>, labelCtr |-> -1, exc |-> "none"]

\* a Python exception raised by the compiler: the first one is kept
CompilerRaise(C, e) == IF C.exc = "none" THEN [C EXCEPT !.exc = e] ELSE C

\* a label "L<n>"
LabelArg(n) == [k |-> "label", v |-> n]

\* Compiler._generateLabel: the counter is stepped, the label is "L" and its value
GenerateLabel(C) == [C EXCEPT !.labelCtr = @ + 1]

InSeq(x, q) == \E i \in 1..Len(q) : q[i] = x

\* the place of the function of that name among the functions
FunctionIndex(C, name) == CHOOSE i \in 1..Len(C.functions) : C.functions[i].name = name

\* Compiler._emit: a line is added to the text of the current function
Emit(C, op, arg) ==
    [C EXCEPT !.functions[FunctionIndex(C, C.currentFn)].text = Append(@, Ins(op, arg))]

\* the mnemonic the binary-operator visit methods emit after their operands
BinOpMnemonic ==
    [AddNode |-> "BINARY_ADD", SubNode |-> "BINARY_SUBTRACT", MulNode |-> "BINARY_MULTIPLY",
     DivNode |-> "BINARY_DIVIDE", ModNode |-> "BINARY_MODULO", EqualNode |-> "CMPEQ",
     NotEqualNode |-> "CMPNE", GreaterThanNode |-> "CMPGT", LessThanNode |-> "CMPLT",
     GreaterThanEqualNode |-> "CMPGE", LessThanEqualNode |-> "CMPLE",
     AndNode |-> "BINARY_AND", OrNode |-> "BINARY_OR"]

\* self._functions[name] = header: a new key goes last, an old key keeps its place
SetFunction(C, name, argc) ==
    LET fresh == [name |-> name, argc |-> argc, text |-> <<>>]
    IN IF \E i \in 1..Len(C.functions) : C.functions[i].name = name
       THEN [C EXCEPT !.functions =
                [i \in 1..Len(@) |-> IF @[i].name = name THEN fresh ELSE @[i]]]
       ELSE [C EXCEPT !.functions = Append(@, fresh)]

FunctionText(C, name) ==
    (CHOOSE f \in {C.functions[i] : i \in 1..Len(C.functions)} : f.name = name).text

RECURSIVE Visit(_, _)
RECURSIVE VisitAll(_, _)
\* visit each node of a list in order; an exception ends the loop
VisitAll(C, nodes) ==
    IF nodes = <<>> THEN C
    ELSE LET C1 == Visit(C, Head(nodes))
         IN IF C1.exc # "none" THEN C1 ELSE VisitAll(C1, Tail(nodes))

\* visit_BlockNode(node, startLabl, endLabl): continue and break become jumps
\* to the labels handed in (None prints as "GOTO None"), an if statement is
\* handed the labels, any other statement is visited.  A node without
\* stmtList (the IfNode visit_WhileNode hands over) raises AttributeError.
RECURSIVE Visit_BlockNode(_, _, _, _)
RECURSIVE Visit_IfNode(_, _, _, _)
Visit_BlockNode(C, node, startLabl, endLabl) ==
    LET RECURSIVE Stmts(_, _)
        Stmts(Cx, ss) ==
            IF ss = <<>> THEN Cx
            ELSE LET st == Head(ss)
                     C1 == CASE st.type = "ContinueNode" -> Emit(Cx, "GOTO", startLabl)
                             [] st.type = "BreakNode" -> Emit(Cx, "GOTO", endLabl)
                             [] st.type = "IfNode" -> Visit_IfNode(Cx, st, startLabl, endLabl)
                             [] OTHER -> Visit(Cx, st)
                 IN IF C1.exc # "none" THEN C1 ELSE Stmts(C1, Tail(ss))
    IN IF node.type # "BlockNode" THEN CompilerRaise(C, "AttributeError")
       ELSE Stmts(C, node.stmtList)

\* the statement of a conditional, of an else arm
Visit_Arm(C, st, startLabl, endLabl) ==
    CASE st.type = "ContinueNode" ->
            IF startLabl.k = "none" THEN CompilerRaise(C, "AssertionError")
            ELSE Emit(C, "GOTO", startLabl)
      [] st.type = "BreakNode" ->
            IF endLabl.k = "none" THEN CompilerRaise(C, "AssertionError")
            ELSE Emit(C, "GOTO", endLabl)
      [] st.type = "BlockNode" -> Visit_BlockNode(C, st, startLabl, endLabl)
      [] OTHER -> Visit(C, st)

\* visit_ConditionalNode: the state it leaves and the label it returns (the
\* visit of the condition returns None, so the jump is emitted and the label
\* returned is nextLabel)
Visit_ConditionalNode(C, node, startLabl, endLabl) ==
    LET C0 == GenerateLabel(C)
        nextLabel == LabelArg(C0.labelCtr)
        C1 == Emit(Visit(C0, node.condition), "POP_JMP_IF_FALSE", nextLabel)
    IN [C |-> Visit_Arm(C1, node.statement, startLabl, endLabl), label |-> nextLabel]

\* visit_IfNode without the jump to the end label behind each arm
Visit_IfNode_FallThrough(C, node, startLabl, endLabl) ==
    LET C0 == GenerateLabel(C)
        endifLabel == LabelArg(C0.labelCtr)
        RECURSIVE Arms(_, _)
        Arms(Cx, arms) ==
            IF arms = <<>> THEN Cx
            ELSE LET r == Visit_ConditionalNode(Cx, Head(arms), startLabl, endLabl)
                 IN IF r.C.exc # "none" THEN r.C
                    ELSE Arms(Emit(r.C, "LABEL", r.label), Tail(arms))
        C1 == Arms(C0, <<node.ifBlock>> \o node.elsifBlocks)
        C2 == IF node.elseBlock # NoneNode
              THEN Visit_Arm(C1, node.elseBlock, startLabl, endLabl)
              ELSE C1
    IN Emit(C2, "LABEL", endifLabel)

\* visit_IfNode; a label's own line ".L<n>" is the line LABEL
Visit_IfNode(C, node, startLabl, endLabl) ==
    LET C0 == GenerateLabel(C)
        endifLabel == LabelArg(C0.labelCtr)
        RECURSIVE Arms(_, _)
        Arms(Cx, arms) ==
            IF arms = <<>> THEN Cx
            ELSE LET r == Visit_ConditionalNode(Cx, Head(arms), startLabl, endLabl)
                 IN IF r.C.exc # "none" THEN r.C
                    ELSE Arms(Emit(Emit(r.C, "GOTO", endifLabel), "LABEL", r.label), Tail(arms))
        C1 == Arms(C0, <<node.ifBlock>> \o node.elsifBlocks)
        C2 == IF node.elseBlock # NoneNode
              THEN Visit_Arm(C1, node.elseBlock, startLabl, endLabl)
              ELSE C1
    IN Emit(C2, "LABEL", endifLabel)

\* visit_WhileNode
Visit_WhileNode(C, node) ==
    LET C0 == GenerateLabel(C)
        loopLabel == LabelArg(C0.labelCtr)
        C1 == GenerateLabel(C0)
        endLoopLabel == LabelArg(C1.labelCtr)
        C2 == Emit(Visit(Emit(C1, "LABEL", loopLabel), node.condition),
                   "POP_JMP_IF_FALSE", endLoopLabel)
        C3 == IF node.statement.type \in {"BlockNode", "IfNode"}
              THEN Visit_BlockNode(C2, node.statement, loopLabel, endLoopLabel)
              ELSE Visit(C2, node.statement)
    IN Emit(Emit(C3, "GOTO", loopLabel), "LABEL", endLoopLabel)

\* visit_FunDeclNode
Visit_FunDeclNode(C, node) ==
    LET oldFn == C.currentFn
        fn == node.id.token
        C1 == [SetFunction(C, fn, Len(node.paramList)) EXCEPT !.currentFn = fn]
        RECURSIVE Params(_, _)
        Params(Cx, ps) ==
            IF ps = <<>> THEN Cx
            ELSE Params(Emit(Cx, "STORE_LOCAL", NameArg(Head(ps))), Tail(ps))
        C2 == Visit(Params(C1, node.paramList), node.blockNode)
        C3 == IF ~ \E i \in 1..Len(FunctionText(C2, fn)) :
                      FunctionText(C2, fn)[i].op = "RETURN_VALUE"
              THEN Emit(Emit(C2, "LOAD_NIL", NoArg), "RETURN_VALUE", NoArg)
              ELSE C2
    IN [C3 EXCEPT !.currentFn = oldFn]

\* visit_FunctionCallNode
Visit_FunctionCallNode(C, node) ==
    LET C1 == VisitAll(C, node.argList)
    IN IF node.nameNode.token \in DOMAIN builtinFunctionInfo
       THEN Emit(C1, "CALL_NATIVE", NumArg(builtinFunctionInfo[node.nameNode.token][1]))
       ELSE Emit(C1, "CALL_FUNCTION", NameArg(node.nameNode.token))

\* NodeVisitor.visit and the Compiler's visit methods (those of the statements
\* and expressions the checked programs are made of)
Visit(C, node) ==
    CASE node.type = "ProgramNode" -> VisitAll(C, node.declarationList)
      [] node.type = "NumberNode" ->
            IF node.token < 256 THEN Emit(C, "BIPUSH", NumArg(node.token))
            ELSE Emit([C EXCEPT !.constantPool = Append(@, [k |-> "i", v |-> node.token])],
                      "LOAD_CONST", NumArg(Len(C.constantPool)))
      [] node.type = "NilNode" -> Emit(C, "LOAD_NIL", NoArg)
      [] node.type = "TrueNode" -> Emit(C, "LOAD_TRUE", NoArg)
      [] node.type = "FalseNode" -> Emit(C, "LOAD_FALSE", NoArg)
      [] node.type = "IdentifierNode" ->
            IF InSeq(node.token, C.globalVars) THEN Emit(C, "LOAD_GLOBAL", NameArg(node.token))
            ELSE Emit(C, "LOAD_LOCAL", NameArg(node.token))
      [] node.type \in DOMAIN BinOpMnemonic ->
            Emit(Visit(Visit(C, node.left), node.right), BinOpMnemonic[node.type], NoArg)
      [] node.type = "VarDeclNode" ->
            LET C1 == IF node.exprNode.type # "NoneType" THEN Visit(C, node.exprNode)
                      ELSE Emit(C, "LOAD_NIL", NoArg)
                C2 == IF C1.currentFn = "main"
                      THEN [C1 EXCEPT !.globalVars = Append(@, node.id.token)]
                      ELSE C1
            IN Emit(C2, "STORE_LOCAL", NameArg(node.id.token))
      [] node.type = "AssignNode" ->
            LET C1 == Visit(C, node.exprNode)
            IN IF node.lvalue.type = "IdentifierNode"
               THEN IF InSeq(node.lvalue.token, C1.globalVars)
                    THEN Emit(C1, "STORE_GLOBAL", NameArg(node.lvalue.token))
                    ELSE Emit(C1, "STORE_LOCAL", NameArg(node.lvalue.token))
               ELSE IF node.lvalue.type = "ArrayAccessNode"
               THEN Emit(Visit(Visit(C1, node.lvalue.base), node.lvalue.index), "STORE_SUBSCR", NoArg)
               ELSE C1
      [] node.type = "ArrayNode" ->
            Emit(VisitAll(C, node.elements), "BUILD_LIST", NumArg(Len(node.elements)))
      [] node.type = "ArrayAccessNode" ->
            Emit(Visit(Visit(C, node.base), node.index), "BINARY_SUBSCR", NoArg)
      [] node.type = "BlockNode" -> Visit_BlockNode(C, node, NoArg, NoArg)
      [] node.type = "IfNode" -> Visit_IfNode(C, node, NoArg, NoArg)
      [] node.type = "ConditionalNode" -> Visit_ConditionalNode(C, node, NoArg, NoArg).C
      [] node.type = "WhileNode" -> Visit_WhileNode(C, node)
      [] node.type = "ReturnNode" -> Emit(Visit(C, node.expr), "RETURN_VALUE", NoArg)
      [] node.type = "FunDeclNode" -> Visit_FunDeclNode(C, node)
      [] node.type = "FunctionCallNode" -> Visit_FunctionCallNode(C, node)
      [] node.type \in {"ContinueNode", "BreakNode", "NoneType"} ->
            \* NodeVisitor.visit: no visit method of that name
            CompilerRaise(C, "Exception")

\* Compiler.getCode: END closes main; the functions come out in insertion order
GetCode(C) ==
    [constantPool |-> C.constantPool,
     functions |-> [i \in 1..Len(C.functions) |->
                        IF C.functions[i].name = "main"
                        THEN [C.functions[i] EXCEPT !.text = Append(@, Ins("END", NoArg))]
                        ELSE C.functions[i]]]

Compile(program) == GetCode(Visit(CompilerNew, program))

(***************************************************************************)
(* From the compiler's text to a code object.  The repository has no       *)
(* assembler; this one follows the language specification: a mnemonic      *)
(* becomes its opcode byte and operand bytes (big-endian), a local name    *)
(* the slot of its first use in the function (so parameters take slots     *)
(* 0..argc-1), a global name its slot in main, a function name its index   *)
(* in the function pool (main is 0), a label the offset in the function's  *)
(* code of the line that follows the label's own line, which takes no byte.*)
(***************************************************************************)
\* the bytes a line of the text takes
InsSize(ins) == IF ins.op = "LABEL" THEN 0 ELSE opcodeSizeDict[ins.op]

\* the offset of label n: the bytes of the lines before its own line
RECURSIVE LabelOffset(_, _, _)
LabelOffset(text, n, at) ==
    IF Head(text).op = "LABEL" /\ Head(text).arg.v = n THEN at
    ELSE LabelOffset(Tail(text), n, at + InsSize(Head(text)))

RECURSIVE SlotNames(_, _)
SlotNames(text, seen) ==
    IF text = <<>> THEN seen
    ELSE LET ins == Head(text)
             new == /\ ins.op \in {"LOAD_LOCAL", "STORE_LOCAL"}
                    /\ ins.arg.k = "name"
                    /\ ~InSeq(ins.arg.v, seen)
         IN SlotNames(Tail(text), IF new THEN Append(seen, ins.arg.v) ELSE seen)

IndexIn(q, x) == (CHOOSE i \in 1..Len(q) : q[i] = x) - 1

AsmOperand(asm, fn, ins) ==
    IF ins.arg.k = "num" THEN ins.arg.v
    ELSE IF ins.arg.k = "label" THEN LabelOffset(fn.text, ins.arg.v, 0)
    ELSE IF ins.op \in {"LOAD_LOCAL", "STORE_LOCAL"}
         THEN IndexIn(SlotNames(fn.text, <<>>), ins.arg.v)
    ELSE IF ins.op \in {"LOAD_GLOBAL", "STORE_GLOBAL"}
         THEN IndexIn(SlotNames(asm.functions[1].text, <<>>), ins.arg.v)
    ELSE IndexIn([i \in 1..Len(asm.functions) |-> asm.functions[i].name], ins.arg.v)

AsmIns(asm, fn, ins) ==
    IF ins.op = "LABEL" THEN <<>>
    ELSE <<opcode[ins.op]>> \o
            (IF opcodeSizeDict[ins.op] = 1 THEN <<>>
             ELSE IF opcodeSizeDict[ins.op] = 2 THEN <<AsmOperand(asm, fn, ins)>>
             ELSE SerU16(AsmOperand(asm, fn, ins)))

RECURSIVE AsmText(_, _, _)
AsmText(asm, fn, text) ==
    IF text = <<>> THEN <<>>
    ELSE AsmIns(asm, fn, Head(text)) \o AsmText(asm, fn, Tail(text))

Assemble(asm) ==
    [const_pool |-> [i \in 1..Len(asm.constantPool) |->
                        cp_info(CONSTANT_Integer, IntVal(asm.constantPool[i].v))],
     func_pool |-> [i \in 1..Len(asm.functions) |->
                        func_info(asm.functions[i].argc,
                                  AsmText(asm, asm.functions[i], asm.functions[i].text))]]

(***************************************************************************)
(*                         THE VIRTUAL MACHINE                             *)
(*                                                                         *)
(* In vm.py the handlers from execute_CMPGT on are not indented under the  *)
(* class; the model dispatches every opcode to the handler text that bears *)
(* its name.  vm.py has no execute_CALL_FUNCTION: that handler is written  *)
(* from the call protocol of the language specification.                   *)
(***************************************************************************)
\* Frame.__init__: len(self._local_vars)
FrameLocals == 256

\* Frame.__init__; the Stack and the locals list are objects of the heap
\* (vm.stacks, vm.locals), named here by their id
Frame(n, id) ==
    [name |-> n, operand_stack |-> id, local_vars |-> id, code |-> <<>>, ret_address |-> 0]

\* VirtualMachine.__init__ (cur_ins -1 stands for None); src describes the
\* program the code object was made from, stdout is the text written so far
VMNew(src, code_obj) ==
    [pc |-> "new", err |-> "none", src |-> src, code_obj |-> code_obj,
     cur_frame |-> Frame(None, 0), main_frame |-> Frame("main", 1), cur_is_main |-> FALSE,
     call_stack |-> <<>>, ip |-> -1, cur_ins |-> -1, i |-> -1,
     stacks |-> [id \in {0, 1} |-> <<>>],
     locals |-> [id \in {0, 1} |-> <<>>],
     arrays |-> <<>>, stdout |-> <<>>]

\* an Array object of the machine: the list it holds is arrays[ref], so that two
\* references to one object are two equal values
ArrayObject(ref) == [type |-> "Array", ref |-> ref]

VRaise(V, e) == IF V.err # "none" THEN V ELSE [V EXCEPT !.err = e]

\* the lists no frame refers to any more are gone
Collect(V) ==
    LET live == {V.cur_frame.operand_stack, V.main_frame.operand_stack}
                \cup {V.call_stack[k].operand_stack : k \in 1..Len(V.call_stack)}
    IN [V EXCEPT !.stacks = [id \in live |-> @[id]], !.locals = [id \in live |-> @[id]]]

\* Frame.getInsAtIndex under VirtualMachine._advance
Advance(V, advance_by) ==
    LET ip == V.ip + advance_by
    IN IF V.err # "none" THEN V
       ELSE IF ip >= Len(V.cur_frame.code) THEN [VRaise(V, "IndexError") EXCEPT !.ip = ip]
       ELSE [V EXCEPT !.ip = ip, !.cur_ins = V.cur_frame.code[ip + 1]]

\* VirtualMachine._goto
Goto(V, idx) == Advance([V EXCEPT !.ip = idx], 0)

\* the u16 operand: (self._advance() << 8) + self._advance()
AdvanceU16(V) ==
    LET V1 == Advance(V, 1)
        V2 == Advance(V1, 1)
    IN [V |-> V2, val |-> V1.cur_ins * 256 + V2.cur_ins]

\* Frame.pushOpStack on the current frame
PushOp(V, e) == [V EXCEPT !.stacks[V.cur_frame.operand_stack] = Append(@, e)]

\* Frame.popOpStack on the current frame: list.pop() raises IndexError when empty
PopOp(V) ==
    LET st == V.stacks[V.cur_frame.operand_stack]
    IN IF V.err # "none" \/ st = <<>> THEN [V |-> VRaise(V, "IndexError"), val |-> Nil]
       ELSE [V |-> [V EXCEPT !.stacks[V.cur_frame.operand_stack] = Front(st)], val |-> Last(st)]

\* the operands of a binary handler: r is popped first, then l
PopTwo(V) ==
    LET p1 == PopOp(V)
        p2 == PopOp(p1.V)
    IN [V |-> p2.V, l |-> p2.val, r |-> p1.val]

\* Frame.getLocalVarAtIndex / setLocalVarAtIndex on a locals list: the list is
\* [Nil()] * 256, held as the slots written so far
LocalGet(lv, i) == IF i \in DOMAIN lv THEN lv[i] ELSE Nil

LocalSet(lv, i, e) == [j \in DOMAIN lv \cup {i} |-> IF j = i THEN e ELSE lv[j]]

SetLocalVarAtIndex(V, frame, i, e) ==
    IF V.err # "none" THEN V
    ELSE IF i >= FrameLocals THEN VRaise(V, "IndexError")
    ELSE [V EXCEPT !.locals[frame.local_vars] = LocalSet(@, i, e)]

\* Python arithmetic on the numbers the programs compute: ints, and the
\* quotient of two ints as the fraction p/q the float is nearest to
RECURSIVE GCD(_, _)
GCD(a, b) == IF b = 0 THEN a ELSE GCD(b, a % b)

Abs(n) == IF n < 0 THEN -n ELSE n

\* a Python number as a fraction: an int is itself over 1, a float the
\* fraction p/q it stands for
RatNum(x) == IF x.k = "int" THEN x.v ELSE x.p

RatDen(x) == IF x.k = "int" THEN 1 ELSE x.q

\* the float n/d in lowest terms, d # 0
PyFloatOf(n, d) ==
    LET g == GCD(Abs(n), Abs(d))
        sgn == IF d < 0 THEN -1 ELSE 1
    IN [k |-> "float", p |-> sgn * (n \div g), q |-> Abs(d) \div g]

\* Python's n % d on ints: the result has the sign of d
PyIntMod(n, d) == IF d > 0 THEN n % d ELSE -((-n) % (-d))

\* l.value / r.value: always a float
PyTrueDiv(a, b) == PyFloatOf(RatNum(a) * RatDen(b), RatDen(a) * RatNum(b))

\* l.value % r.value: an int of two ints, else a float
PyMod(a, b) ==
    IF a.k = "int" /\ b.k = "int" THEN IntVal(PyIntMod(a.v, b.v))
    ELSE PyFloatOf(PyIntMod(RatNum(a) * RatDen(b), RatNum(b) * RatDen(a)), RatDen(a) * RatDen(b))

\* l.value == r.value
PyEq(a, b) ==
    IF a.k = "str" \/ b.k = "str" THEN a = b
    ELSE IF a.k = "int" /\ b.k = "int" THEN a.v = b.v
    ELSE LET num(x) == IF x.k = "int" THEN x.v ELSE x.p
             den(x) == IF x.k = "int" THEN 1 ELSE x.q
         IN num(a) * den(b) = num(b) * den(a)

Bool(b) == IF b THEN Boolean(STR_true) ELSE Boolean(STR_false)

BothNumbers(l, r) == GetObjType(l) = "Number" /\ GetObjType(r) = "Number"

execute_LOAD_NIL(V) == PushOp(V, Nil)

execute_LOAD_TRUE(V) == PushOp(V, Boolean(STR_true))

execute_LOAD_FALSE(V) == PushOp(V, Boolean(STR_false))

execute_LOAD_CONST(V) ==
    LET a == AdvanceU16(V)
    IN IF a.V.err # "none" THEN a.V
       ELSE IF a.val >= Len(V.code_obj.const_pool) THEN VRaise(a.V, "IndexError")
       ELSE LET constObj == V.code_obj.const_pool[a.val + 1]
            IN IF constObj.tag = CONSTANT_String THEN PushOp(a.V, String(constObj.info.s))
               ELSE IF constObj.tag \in {CONSTANT_Integer, CONSTANT_Double}
                    THEN PushOp(a.V, Number(constObj.info))
               ELSE a.V

execute_BINARY_ADD(V) ==
    LET o == PopTwo(V)
    IN IF o.V.err # "none" THEN o.V
       ELSE IF GetObjType(o.l) = "String"
            THEN IF GetObjType(o.r) # "String" THEN VRaise(o.V, "TypeErr")
                 ELSE PushOp(o.V, String(o.l.value.s \o o.r.value.s))
       ELSE IF GetObjType(o.l) = "Number"
            THEN IF GetObjType(o.r) # "Number" THEN VRaise(o.V, "TypeErr")
                 ELSE PushOp(o.V, Number(IntVal(o.l.value.v + o.r.value.v)))
       ELSE VRaise(o.V, "TypeErr")

execute_BINARY_SUBTRACT(V) ==
    LET o == PopTwo(V)
    IN IF o.V.err # "none" THEN o.V
       ELSE IF ~BothNumbers(o.l, o.r) THEN VRaise(o.V, "TypeErr")
       ELSE PushOp(o.V, Number(IntVal(o.l.value.v - o.r.value.v)))

execute_BINARY_MULTIPLY(V) ==
    LET o == PopTwo(V)
    IN IF o.V.err # "none" THEN o.V
       ELSE IF ~BothNumbers(o.l, o.r) THEN VRaise(o.V, "TypeErr")
       ELSE PushOp(o.V, Number(IntVal(o.l.value.v * o.r.value.v)))

execute_BINARY_DIVIDE(V) ==
    LET o == PopTwo(V)
    IN IF o.V.err # "none" THEN o.V
       ELSE IF ~BothNumbers(o.l, o.r) THEN VRaise(o.V, "TypeErr")
       ELSE IF PyEqZero(o.r.value) THEN VRaise(o.V, "ZeroDivErr")
       ELSE PushOp(o.V, Number(PyTrueDiv(o.l.value, o.r.value)))

\* BINARY_MODULO with the zero test made first
execute_BINARY_MODULO_ZeroFirst(V) ==
    LET o == PopTwo(V)
    IN IF o.V.err # "none" THEN o.V
       ELSE IF GetObjType(o.r) = "Number" /\ PyEqZero(o.r.value) THEN VRaise(o.V, "ZeroDivErr")
       ELSE IF ~BothNumbers(o.l, o.r) THEN VRaise(o.V, "TypeErr")
       ELSE PushOp(o.V, Number(PyMod(o.l.value, o.r.value)))

execute_BINARY_MODULO(V) ==
    LET o == PopTwo(V)
    IN IF o.V.err # "none" THEN o.V
       ELSE IF ~BothNumbers(o.l, o.r) THEN VRaise(o.V, "TypeErr")
       ELSE IF PyEqZero(o.r.value) THEN VRaise(o.V, "ZeroDivErr")
       ELSE PushOp(o.V, Number(PyMod(o.l.value, o.r.value)))

execute_BINARY_AND(V) ==
    LET o == PopTwo(V)
    IN IF o.V.err # "none" THEN o.V
       ELSE IF ~VM_isTruthy(o.l) THEN PushOp(o.V, Boolean(STR_false))
       ELSE IF ~VM_isTruthy(o.r) THEN PushOp(o.V, Boolean(STR_false))
       ELSE PushOp(o.V, Boolean(STR_true))

execute_BINARY_OR(V) ==
    LET o == PopTwo(V)
    IN IF o.V.err # "none" THEN o.V
       ELSE IF VM_isTruthy(o.l) THEN PushOp(o.V, Boolean(STR_true))
       ELSE IF VM_isTruthy(o.r) THEN PushOp(o.V, Boolean(STR_true))
       ELSE PushOp(o.V, Boolean(STR_false))

execute_UNARY_NOT(V) ==
    LET o == PopOp(V)
    IN IF o.V.err # "none" THEN o.V
       ELSE PushOp(o.V, Bool(~VM_isTruthy(o.val)))

execute_UNARY_NEGATIVE(V) ==
    LET o == PopOp(V)
    IN IF o.V.err # "none" THEN o.V
       ELSE IF GetObjType(o.val) # "Number" THEN VRaise(o.V, "TypeErr")
       ELSE PushOp(o.V, Number(IntVal(-(o.val.value.v))))

\* the operand is read before the value is popped
execute_STORE_LOCAL(V) ==
    LET V1 == Advance(V, 1)
        o == PopOp(V1)
    IN SetLocalVarAtIndex(o.V, o.V.cur_frame, V1.cur_ins, o.val)

\* execute_STORE_GLOBAL storing into the frame that executes it
execute_STORE_GLOBAL_CurFrame(V) ==
    LET V1 == Advance(V, 1)
        o == PopOp(V1)
    IN SetLocalVarAtIndex(o.V, o.V.cur_frame, V1.cur_ins, o.val)

execute_STORE_GLOBAL(V) ==
    LET V1 == Advance(V, 1)
        o == PopOp(V1)
    IN SetLocalVarAtIndex(o.V, o.V.main_frame, V1.cur_ins, o.val)

execute_BIPUSH(V) ==
    LET V1 == Advance(V, 1)
    IN IF V1.err # "none" THEN V1 ELSE PushOp(V1, Number(IntVal(V1.cur_ins)))

execute_LOAD_LOCAL(V) ==
    LET V1 == Advance(V, 1)
    IN IF V1.err # "none" THEN V1
       ELSE PushOp(V1, LocalGet(V1.locals[V1.cur_frame.local_vars], V1.cur_ins))

execute_LOAD_GLOBAL(V) ==
    LET V1 == Advance(V, 1)
    IN IF V1.err # "none" THEN V1
       ELSE PushOp(V1, LocalGet(V1.locals[V1.main_frame.local_vars], V1.cur_ins))

\* list[idx] on a list of n elements: the place of the element (from 1), or 0
\* where Python raises IndexError; -n..-1 count from the end
PyListIndex(n, idx) ==
    IF 0 <= idx /\ idx < n THEN idx + 1
    ELSE IF -n <= idx /\ idx < 0 THEN n + idx + 1
    ELSE 0

\* Array.getEL
Array_getEL(V, arr, idx) == V.arrays[arr.ref][PyListIndex(Len(V.arrays[arr.ref]), idx)]

\* Array.setEL
Array_setEL(V, arr, el, idx) ==
    [V EXCEPT !.arrays[arr.ref][PyListIndex(Len(V.arrays[arr.ref]), idx)] = el]

\* pop length values; the first popped is the last element
RECURSIVE PopList(_, _, _)
PopList(V, length, arrElList) ==
    IF length = 0 THEN [V |-> V, list |-> arrElList]
    ELSE LET o == PopOp(V) IN PopList(o.V, length - 1, <<o.val>> \o arrElList)

execute_BUILD_LIST(V) ==
    LET a == AdvanceU16(V)
        l == PopList(a.V, a.val, <<>>)
    IN IF a.V.err # "none" THEN a.V
       ELSE IF l.V.err # "none" THEN l.V
       ELSE PushOp([l.V EXCEPT !.arrays = Append(@, l.list)], ArrayObject(Len(l.V.arrays) + 1))

\* the checks BINARY_SUBSCR and STORE_SUBSCR make on the index and the array;
\* arr.getEL(idx.value) == None compares an element with None, which is never
\* equal, after list indexing has raised Python's IndexError or not
SubscrOperands(V) ==
    LET i == PopOp(V)
        a == PopOp(i.V)
    IN IF i.V.err # "none" THEN [V |-> i.V, idx |-> i.val, arr |-> Nil]
       ELSE IF GetObjType(i.val) # "Number" THEN [V |-> VRaise(i.V, "TypeErr"), idx |-> i.val, arr |-> Nil]
       ELSE IF i.val.value.k = "float" THEN [V |-> VRaise(i.V, "TypeErr"), idx |-> i.val, arr |-> Nil]
       ELSE IF a.V.err # "none" THEN [V |-> a.V, idx |-> i.val, arr |-> Nil]
       ELSE IF GetObjType(a.val) # "Array" THEN [V |-> VRaise(a.V, "TypeErr"), idx |-> i.val, arr |-> Nil]
       ELSE [V |-> a.V, idx |-> i.val, arr |-> a.val]

execute_BINARY_SUBSCR(V) ==
    LET o == SubscrOperands(V)
    IN IF o.V.err # "none" THEN o.V
       ELSE IF PyListIndex(Len(o.V.arrays[o.arr.ref]), o.idx.value.v) = 0
            THEN VRaise(o.V, "IndexError")
       ELSE PushOp(o.V, Array_getEL(o.V, o.arr, o.idx.value.v))

\* STORE_SUBSCR storing into a copy of the array
execute_STORE_SUBSCR_Copy(V) ==
    LET o == SubscrOperands(V)
        v == PopOp(o.V)
        copy == ArrayObject(Len(v.V.arrays) + 1)
    IN IF o.V.err # "none" THEN o.V
       ELSE IF v.V.err # "none" THEN v.V
       ELSE IF PyListIndex(Len(o.V.arrays[o.arr.ref]), o.idx.value.v) = 0
            THEN VRaise(v.V, "IndexError")
       ELSE PushOp(Array_setEL([v.V EXCEPT !.arrays = Append(@, @[o.arr.ref])],
                               copy, v.val, o.idx.value.v), copy)

execute_STORE_SUBSCR(V) ==
    LET o == SubscrOperands(V)
        v == PopOp(o.V)
    IN IF o.V.err # "none" THEN o.V
       ELSE IF v.V.err # "none" THEN v.V
       ELSE IF PyListIndex(Len(o.V.arrays[o.arr.ref]), o.idx.value.v) = 0
            THEN VRaise(v.V, "IndexError")
       ELSE PushOp(Array_setEL(v.V, o.arr, v.val, o.idx.value.v), o.arr)

\* obj.value: an Array and a Function have no attribute of that name
HasValue(obj) == "value" \in DOMAIN obj

execute_CMPEQ(V) ==
    LET o == PopTwo(V)
    IN IF o.V.err # "none" THEN o.V
       ELSE IF ~HasValue(o.l) \/ ~HasValue(o.r) THEN VRaise(o.V, "AttributeError")
       ELSE PushOp(o.V, Bool(PyEq(o.l.value, o.r.value)))

execute_CMPNE(V) ==
    LET o == PopTwo(V)
    IN IF o.V.err # "none" THEN o.V
       ELSE IF ~HasValue(o.l) \/ ~HasValue(o.r) THEN VRaise(o.V, "AttributeError")
       ELSE PushOp(o.V, Bool(~PyEq(o.l.value, o.r.value)))

\* execute_CMPGT, execute_CMPLT, execute_CMPGE, execute_CMPLE: the same text but
\* for the comparison
execute_CMP(V, cmp) ==
    LET o == PopTwo(V)
        l == o.l.value.v
        r == o.r.value.v
    IN IF o.V.err # "none" THEN o.V
       ELSE IF ~BothNumbers(o.l, o.r) THEN VRaise(o.V, "TypeErr")
       ELSE PushOp(o.V, Bool(CASE cmp = "CMPGT" -> l > r [] cmp = "CMPLT" -> l < r
                               [] cmp = "CMPGE" -> l >= r [] cmp = "CMPLE" -> l <= r))

execute_GOTO(V) ==
    LET a == AdvanceU16(V)
    IN IF a.V.err # "none" THEN a.V ELSE Goto(a.V, a.val)

execute_POP_JMP_IF_TRUE(V) ==
    LET a == AdvanceU16(V)
        o == PopOp(a.V)
    IN IF o.V.err # "none" THEN o.V
       ELSE IF VM_isTruthy(o.val) THEN Goto(o.V, a.val)
       ELSE Advance(o.V, 1)

\* POP_JMP_IF_FALSE without the _advance() of the jump not taken
execute_POP_JMP_IF_FALSE_NoAdvance(V) ==
    LET a == AdvanceU16(V)
        o == PopOp(a.V)
    IN IF o.V.err # "none" THEN o.V
       ELSE IF ~VM_isTruthy(o.val) THEN Goto(o.V, a.val)
       ELSE Advance(o.V, 0)

execute_POP_JMP_IF_FALSE(V) ==
    LET a == AdvanceU16(V)
        o == PopOp(a.V)
    IN IF o.V.err # "none" THEN o.V
       ELSE IF ~VM_isTruthy(o.val) THEN Goto(o.V, a.val)
       ELSE Advance(o.V, 1)

\* the argc values a call takes from the operand stack, first argument first
RECURSIVE PopArgs(_, _, _)
PopArgs(V, argc, args) ==
    IF argc = 0 THEN [V |-> V, args |-> args]
    ELSE LET o == PopOp(V) IN PopArgs(o.V, argc - 1, <<o.val>> \o args)

\* CALL_FUNCTION idx, from the call protocol of the language specification: pop
\* argc values; a new frame with the function's code and the arguments in local
\* slots 0..argc-1; the caller's IP recorded as the return address (on the frame
\* RETURN_VALUE will pop it from); the old frame pushed, the new one current, and
\* the IP such that the run loop's advance fetches the function's first byte.
execute_CALL_FUNCTION(V) ==
    LET V1 == Advance(V, 1)
        idx == V1.cur_ins
    IN IF V1.err # "none" THEN V1
       ELSE IF idx >= Len(V.code_obj.func_pool) THEN VRaise(V1, "IndexError")
       ELSE LET f == V.code_obj.func_pool[idx + 1]
                a == PopArgs(V1, f.argc, <<>>)
                id == Len(V.call_stack) + 2
                caller == [a.V.cur_frame EXCEPT !.ret_address = V1.ip]
            IN IF a.V.err # "none" THEN a.V
               ELSE [a.V EXCEPT
                        !.call_stack = Append(@, caller),
                        !.main_frame = IF a.V.cur_is_main THEN caller ELSE @,
                        !.cur_frame = [Frame(None, id) EXCEPT !.code = f.code],
                        !.cur_is_main = FALSE,
                        !.ip = -1,
                        !.stacks = [j \in DOMAIN @ \cup {id} |-> IF j = id THEN <<>> ELSE @[j]],
                        !.locals = [j \in DOMAIN @ \cup {id} |->
                                       IF j = id THEN [n \in 0..(f.argc - 1) |-> a.args[n + 1]]
                                       ELSE @[j]]]

\* execute_RETURN_VALUE with the value pushed before the caller's frame is copied
\* into the current one
execute_RETURN_VALUE_PushFirst(V) ==
    LET o == PopOp(V)
    IN IF o.V.err # "none" THEN o.V
       ELSE IF o.V.call_stack = <<>> THEN o.V
       ELSE LET ret_f == Last(o.V.call_stack)
                W == PushOp(o.V, o.val)
            IN Collect([W EXCEPT !.call_stack = Front(@),
                                 !.ip = ret_f.ret_address,
                                 !.cur_frame = ret_f,
                                 !.main_frame = IF W.cur_is_main THEN ret_f ELSE @])

\* execute_RETURN_VALUE: with an empty call stack _popFrame raises inside the
\* try and the bare except passes; Frame.copy makes the current frame object
\* hold the popped frame's stack, locals, code and return address
execute_RETURN_VALUE(V) ==
    LET o == PopOp(V)
    IN IF o.V.err # "none" THEN o.V
       ELSE IF o.V.call_stack = <<>> THEN o.V
       ELSE LET ret_f == Last(o.V.call_stack)
                W == [o.V EXCEPT !.call_stack = Front(@),
                                 !.ip = ret_f.ret_address,
                                 !.cur_frame = ret_f,
                                 !.main_frame = IF o.V.cur_is_main THEN ret_f ELSE @]
            IN Collect(PushOp(W, o.val))

(***************************************************************************)
(* The built-in functions (stdlib.py)                                      *)
(***************************************************************************)
\* stdlib.py: builtinFunctionIndex, index -> name (place i + 1 holds index i)
builtinFunctionIndex == <<"print", "println", "input", "len", "int", "str", "isinteger">>

\* Python's str(n) for an int: its decimal digits, "-" before a negative one
RECURSIVE PyStrNat(_)
PyStrNat(n) == IF n < 10 THEN <<48 + n>> ELSE Append(PyStrNat(n \div 10), 48 + (n % 10))

PyStrInt(n) == IF n < 0 THEN <<45>> \o PyStrNat(-n) ELSE PyStrNat(n)

\* str(el), the __str__ of Number (holding an int), String (in double quotes),
\* Nil and Boolean
LObjectStr(el) ==
    IF el.type = "Number" THEN PyStrInt(el.value.v)
    ELSE IF el.type = "String" THEN <<34>> \o el.value.s \o <<34>>
    ELSE el.value.s

\* what a built-in does: the object it returns and the text it writes to
\* stdout, or the exception it raises
Returned(obj, out) == [err |-> "none", val |-> obj, out |-> out]

Raised(e) == [err |-> e, val |-> Nil, out |-> <<>>]

\* the output of loks_print and loks_println: str(argList[0]), of a String
\* without its first and last character
PrintOutput(el) ==
    IF el.type = "String" THEN SubSeq(LObjectStr(el), 2, Len(LObjectStr(el)) - 1)
    ELSE LObjectStr(el)

loks_print(argList) == Returned(Nil, PrintOutput(argList[1]))

loks_println(argList) == Returned(Nil, PrintOutput(argList[1]) \o <<10>>)

\* loks_input: input(argList[0].value) writes the prompt and returns the line
\* read from stdin; an Array has no attribute value
loks_input(argList, line) ==
    IF argList[1].type = "Array" THEN Raised("AttributeError")
    ELSE Returned(String(line),
                  IF argList[1].value.k = "str" THEN argList[1].value.s
                  ELSE PyStrInt(argList[1].value.v))

\* loks_len
loks_len(arrays, el) ==
    IF el[1].type = "String" THEN Returned(Number(IntVal(Len(el[1].value.s))), <<>>)
    ELSE IF el[1].type = "Array" THEN Returned(Number(IntVal(Len(arrays[el[1].ref]))), <<>>)
    ELSE Raised("TypeErr")

\* Python's str.isdigit: every character is a digit and there is at least one.
\* The digits are those of 0..9 and, beyond ASCII, characters such as the
\* superscript two (code point 178) and the Arabic-Indic digits (1632..1641)
PyIsDigit(s) == Len(s) > 0 /\ \A i \in 1..Len(s) : s[i] \in (48..57) \cup {178} \cup (1632..1641)

\* Python's int(s) for a str of ASCII characters: an optional sign and decimal
\* digits; ok tells whether int(s) returns
RECURSIVE PyNatOf(_)
PyNatOf(s) == IF s = <<>> THEN 0 ELSE 10 * PyNatOf(Front(s)) + (Last(s) - 48)

PyIntOfStr(s) ==
    LET signed == Len(s) > 0 /\ s[1] \in {43, 45}
        digits == IF signed THEN Tail(s) ELSE s
        ok == Len(digits) > 0 /\ \A i \in 1..Len(digits) : digits[i] \in 48..57
    IN [ok |-> ok,
        v |-> IF ~ok THEN 0 ELSE IF signed /\ s[1] = 45 THEN -PyNatOf(digits) ELSE PyNatOf(digits)]

\* loks_int: the value of a Boolean becomes 1 or 0; int(s) of an int is s, of a
\* str its parse or ValueErr
loks_int(el) ==
    IF el[1].type = "Array" THEN Raised("AttributeError")
    ELSE IF el[1].type = "Boolean"
    THEN Returned(Number(IntVal(IF el[1].value.s = STR_true THEN 1 ELSE 0)), <<>>)
    ELSE IF el[1].value.k = "int" THEN Returned(Number(el[1].value), <<>>)
    ELSE IF PyIntOfStr(el[1].value.s).ok
    THEN Returned(Number(IntVal(PyIntOfStr(el[1].value.s).v)), <<>>)
    ELSE Raised("ValueErr")

\* loks_str
loks_str(el) == Returned(String(LObjectStr(el[1])), <<>>)

\* loks_isinteger
loks_isinteger(el) ==
    IF el[1].type # "String" THEN Raised("TypeErr")
    ELSE IF Len(el[1].value.s) = 0 THEN Returned(Boolean(STR_false), <<>>)
    ELSE IF el[1].value.s[1] \in {45, 43} THEN Returned(Bool(PyIsDigit(Tail(el[1].value.s))), <<>>)
    ELSE Returned(Bool(PyIsDigit(el[1].value.s)), <<>>)

\* builtinFunctionTable[fnName](args); stdin is the line input() reads
builtinFunctionTable(V, fnName, args) ==
    CASE fnName = "print" -> loks_print(args)
      [] fnName = "println" -> loks_println(args)
      [] fnName = "input" -> loks_input(args, V.src.line)
      [] fnName = "len" -> loks_len(V.arrays, args)
      [] fnName = "int" -> loks_int(args)
      [] fnName = "str" -> loks_str(args)
      [] fnName = "isinteger" -> loks_isinteger(args)

\* execute_CALL_NATIVE: builtinFunctionIndex[idx] and builtinFunctionInfo[fnName]
\* raise KeyError for a key the dict does not hold; the arguments are popped
\* into a list in the order they were pushed, the built-in is called and its
\* result pushed
execute_CALL_NATIVE(V) ==
    LET V1 == Advance(V, 1)
        idx == V1.cur_ins
        fnName == builtinFunctionIndex[idx + 1]
        a == PopList(V1, builtinFunctionInfo[fnName][2], <<>>)
        r == builtinFunctionTable(V1, fnName, a.list)
    IN IF V1.err # "none" THEN V1
       ELSE IF idx + 1 \notin DOMAIN builtinFunctionIndex THEN VRaise(V1, "KeyError")
       ELSE IF fnName \notin DOMAIN builtinFunctionInfo THEN VRaise(V1, "KeyError")
       ELSE IF a.V.err # "none" THEN a.V
       ELSE IF r.err # "none" THEN VRaise(a.V, r.err)
       ELSE PushOp([a.V EXCEPT !.stdout = @ \o r.out], r.val)

\* VirtualMachine.execute: opcodeDict[i] raises KeyError for a byte that is no opcode
execute(V, i) ==
    IF ~ \E n \in DOMAIN opcode : opcode[n] = i THEN VRaise(V, "KeyError")
    ELSE LET n == CHOOSE n \in DOMAIN opcode : opcode[n] = i
         IN CASE n = "LOAD_NIL" -> execute_LOAD_NIL(V)
              [] n = "LOAD_TRUE" -> execute_LOAD_TRUE(V)
              [] n = "LOAD_FALSE" -> execute_LOAD_FALSE(V)
              [] n = "LOAD_CONST" -> execute_LOAD_CONST(V)
              [] n = "BINARY_ADD" -> execute_BINARY_ADD(V)
              [] n = "BINARY_SUBTRACT" -> execute_BINARY_SUBTRACT(V)
              [] n = "BINARY_MULTIPLY" -> execute_BINARY_MULTIPLY(V)
              [] n = "BINARY_DIVIDE" -> execute_BINARY_DIVIDE(V)
              [] n = "BINARY_MODULO" -> execute_BINARY_MODULO(V)
              [] n = "BINARY_AND" -> execute_BINARY_AND(V)
              [] n = "BINARY_OR" -> execute_BINARY_OR(V)
              [] n = "UNARY_NOT" -> execute_UNARY_NOT(V)
              [] n = "UNARY_NEGATIVE" -> execute_UNARY_NEGATIVE(V)
              [] n = "STORE_LOCAL" -> execute_STORE_LOCAL(V)
              [] n = "STORE_GLOBAL" -> execute_STORE_GLOBAL(V)
              [] n = "BIPUSH" -> execute_BIPUSH(V)
              [] n = "LOAD_LOCAL" -> execute_LOAD_LOCAL(V)
              [] n = "LOAD_GLOBAL" -> execute_LOAD_GLOBAL(V)
              [] n = "CMPEQ" -> execute_CMPEQ(V)
              [] n = "CMPNE" -> execute_CMPNE(V)
              [] n \in {"CMPGT", "CMPLT", "CMPGE", "CMPLE"} -> execute_CMP(V, n)
              [] n = "GOTO" -> execute_GOTO(V)
              [] n = "POP_JMP_IF_TRUE" -> execute_POP_JMP_IF_TRUE(V)
              [] n = "POP_JMP_IF_FALSE" -> execute_POP_JMP_IF_FALSE(V)
              [] n = "CALL_FUNCTION" -> execute_CALL_FUNCTION(V)
              [] n = "RETURN_VALUE" -> execute_RETURN_VALUE(V)
              [] n = "BUILD_LIST" -> execute_BUILD_LIST(V)
              [] n = "BINARY_SUBSCR" -> execute_BINARY_SUBSCR(V)
              [] n = "STORE_SUBSCR" -> execute_STORE_SUBSCR(V)
              [] n = "CALL_NATIVE" -> execute_CALL_NATIVE(V)

VMSettle(V) == IF V.err # "none" THEN [V EXCEPT !.pc = "raised"] ELSE [V EXCEPT !.pc = "run"]

\* run(): self._init_vm()
VMInitVM ==
    /\ vm.pc = "new"
    /\ vm' = IF Len(vm.code_obj.func_pool) = 0 THEN VMSettle(VRaise(vm, "IndexError"))
             ELSE LET main == vm.code_obj.func_pool[1]
                      mf == [vm.main_frame EXCEPT !.code = main.code]
                  IN VMSettle(Advance(Collect([vm EXCEPT !.main_frame = mf, !.cur_frame = mf,
                                                          !.cur_is_main = TRUE]), 1))
    /\ UNCHANGED <<lexer, loader, truth, analyser, parser, compiler, interp>>

\* run(): one turn of the loop
VMStep ==
    /\ vm.pc = "run"
    /\ vm.cur_ins # opcode.END
    /\ LET i == vm.cur_ins
           V1 == execute([vm EXCEPT !.i = i], i)
           V2 == IF i \notin {opcode.GOTO, opcode.POP_JMP_IF_TRUE, opcode.POP_JMP_IF_FALSE}
                 THEN Advance(V1, 1)
                 ELSE V1
       IN vm' = VMSettle(V2)
    /\ UNCHANGED <<lexer, loader, truth, analyser, parser, compiler, interp>>

\* run(): the loop ends at END
VMHalt ==
    /\ vm.pc = "run"
    /\ vm.cur_ins = opcode.END
    /\ vm' = [vm EXCEPT !.pc = "halted"]
    /\ UNCHANGED <<lexer, loader, truth, analyser, parser, compiler, interp>>

(***************************************************************************)
(* The programs the virtual machine is run on                              *)
(***************************************************************************)
\* the most parameters of a declared function
MaxParams == 2

ParamNames == <<"a", "b", "c", "d">>

Id(name) == PrimaryNode("IdentifierNode", name)

Num(n) == PrimaryNode("NumberNode", n)

\* the value the i-th argument of a call evaluates to
ArgValue(i) == 10 + i

\* fun f() { return true; }  L and R;      (or: L or R;)
ShortCircuitLefts ==
    {PrimaryNode("FalseNode", STR_false), PrimaryNode("TrueNode", STR_true),
     PrimaryNode("NilNode", STR_nil), Num(0), Num(1)}

ShortCircuitRights ==
    {FunctionCallNode(Id("f"), <<>>), BinOpNode("DivNode", Num(1), Num(0)),
     PrimaryNode("TrueNode", STR_true)}

ShortCircuitPrograms ==
    {[kind |-> "and/or", op |-> o, L |-> l, R |-> r] :
        o \in {"AndNode", "OrNode"}, l \in ShortCircuitLefts, r \in ShortCircuitRights}

\* L / R;  and  L % R;  over ints (2 - 3 is negative), floats (1 / 2 and 0 / 1),
\* nil and true
DivModOperands ==
    {Num(0), Num(1), Num(2), Num(MaxNum), BinOpNode("SubNode", Num(2), Num(MaxNum)),
     BinOpNode("DivNode", Num(1), Num(2)), BinOpNode("DivNode", Num(0), Num(1)),
     PrimaryNode("NilNode", STR_nil), PrimaryNode("TrueNode", STR_true)}

DivModPrograms ==
    {[kind |-> "divmod", op |-> o, L |-> l, R |-> r] :
        o \in {"DivNode", "ModNode"}, l \in DivModOperands, r \in DivModOperands}

\* the longest array of the programs
MaxArrayLen == 2

\* var a = [11, .., 10 + n];  a[i];   or   var a = [11, .., 10 + n];  a[i] = 7;
\* for every index from one below -n to one above n - 1 (a negative i is 0 - k)
ArrayPrograms ==
    {src \in [kind : {"arrays"}, op : {"load", "store"}, n : 0..MaxArrayLen,
              i : -(MaxArrayLen + 1)..(MaxArrayLen + 1)] :
        src.i >= -(src.n + 1) /\ src.i <= src.n + 1}

IndexNode(i) == IF i >= 0 THEN Num(i) ELSE BinOpNode("SubNode", Num(0), Num(-i))

ArrayProgram(src) ==
    ProgramNode(<<
        VarDeclNode(Id("a"), ArrayNode([j \in 1..src.n |-> Num(10 + j)])),
        IF src.op = "load" THEN ArrayAccessNode(Id("a"), IndexNode(src.i))
        ELSE AssignNode(ArrayAccessNode(Id("a"), IndexNode(src.i)), Num(7))>>)

\* one array held by two bindings, 7 stored through one and the element loaded
\* through the other:
\*   locals:  fun f() { var a = [1, 2]; var b = a; b[0] = 7; return a[0]; }  f();
\*   global:  var g = [1, 2]; fun f() { var b = g; b[1] = 7; return g[1]; }  f();
\*   local:   var g = [1, 2]; fun f() { var b = g; g[1] = 7; return b[1]; }  f();
\*   param:   var a = [1, 2]; f(a); a[0];  with f(p) storing p[0] = 7, as text
AliasPrograms == [kind : {"alias"}, of : {"locals", "global", "local", "param"}]

AliasProgram(src) ==
    LET array == ArrayNode(<<Num(1), Num(2)>>)
        f(first, through, other, i) ==
            FunDeclNode(Id("f"), <<>>, BlockNode(<<first,
                AssignNode(ArrayAccessNode(Id(through), Num(i)), Num(7)),
                ReturnNode(ArrayAccessNode(Id(other), Num(i)))>>))
    IN CASE src.of = "locals" ->
                ProgramNode(<<
                    FunDeclNode(Id("f"), <<>>, BlockNode(<<
                        VarDeclNode(Id("a"), array),
                        VarDeclNode(Id("b"), Id("a")),
                        AssignNode(ArrayAccessNode(Id("b"), Num(0)), Num(7)),
                        ReturnNode(ArrayAccessNode(Id("a"), Num(0)))>>)),
                    FunctionCallNode(Id("f"), <<>>)>>)
         [] src.of = "global" ->
                ProgramNode(<<VarDeclNode(Id("g"), array),
                              f(VarDeclNode(Id("b"), Id("g")), "b", "g", 1),
                              FunctionCallNode(Id("f"), <<>>)>>)
         [] src.of = "local" ->
                ProgramNode(<<VarDeclNode(Id("g"), array),
                              f(VarDeclNode(Id("b"), Id("g")), "g", "b", 1),
                              FunctionCallNode(Id("f"), <<>>)>>)

TextAliasParam ==
    [constantPool |-> <<>>,
     functions |-> <<
        [name |-> "main", argc |-> 0, text |-> <<
            Ins("BIPUSH", NumArg(1)), Ins("BIPUSH", NumArg(2)), Ins("BUILD_LIST", NumArg(2)),
            Ins("STORE_LOCAL", NumArg(0)), Ins("LOAD_GLOBAL", NumArg(0)),
            Ins("CALL_FUNCTION", NumArg(1)),
            Ins("LOAD_GLOBAL", NumArg(0)), Ins("BIPUSH", NumArg(0)), Ins("BINARY_SUBSCR", NoArg),
            Ins("END", NoArg)>>],
        [name |-> "f", argc |-> 1, text |-> <<
            Ins("BIPUSH", NumArg(7)), Ins("LOAD_LOCAL", NumArg(0)), Ins("BIPUSH", NumArg(0)),
            Ins("STORE_SUBSCR", NoArg), Ins("LOAD_NIL", NoArg), Ins("RETURN_VALUE", NoArg)>>]>>]

\* a call of each built-in with one argument, compiled from source or given as
\* text (the argument, then CALL_NATIVE fn):
\*   print(5);  println(5);  input(5);  len([1, 2]);  int(5);  str(5);
\*   isinteger(str(5));
\* line is what stdin holds for input.  The text compiled from print(5) calls
\* a function print that the program does not declare, and is not run.
NativePrograms ==
    {src \in [kind : {"native"}, fn : 0..6, via : {"source", "text"}, line : {<<>>, <<55>>}] :
        /\ src.fn # 2 => src.line = <<>>
        /\ ~(src.via = "source" /\ src.fn = 0)}

NativeArg(fn) ==
    IF fn = 3 THEN ArrayNode(<<Num(1), Num(2)>>)
    ELSE IF fn = 6 THEN FunctionCallNode(Id("str"), <<Num(5)>>)
    ELSE Num(5)

NativeCall(fn) ==
    ProgramNode(<<FunctionCallNode(Id(builtinFunctionIndex[fn + 1]), <<NativeArg(fn)>>)>>)

TextNative(fn) ==
    [constantPool |-> <<>>,
     functions |-> <<
        [name |-> "main", argc |-> 0,
         text |-> Front(Compile(ProgramNode(<<NativeArg(fn)>>)).functions[1].text)
                  \o <<Ins("CALL_NATIVE", NumArg(fn)), Ins("END", NoArg)>>]>>]

\* the longest line read from stdin
MaxLineLen == 3

\* the characters of the lines: 1 + - a and the superscript two
LineChars == {49, 43, 45, 97, 178}

RECURSIVE LinesUpTo(_)
LinesUpTo(n) ==
    IF n = 0 THEN {<<>>}
    ELSE LinesUpTo(n - 1) \cup {Append(s, c) : s \in {t \in LinesUpTo(n - 1) : Len(t) = n - 1},
                                               c \in LineChars}

\* isinteger called with the String input returned for a line, and with a
\* Number, Nil, a Boolean and an Array
IsIntegerPrograms ==
    [kind : {"isinteger"}, arg : {"String"}, line : LinesUpTo(MaxLineLen)]
    \cup [kind : {"isinteger"}, arg : {"Number", "Nil", "Boolean", "Array"}, line : {<<>>}]

TextIsInteger(arg) ==
    [constantPool |-> <<>>,
     functions |-> <<
        [name |-> "main", argc |-> 0,
         text |-> (CASE arg = "String" -> <<Ins("BIPUSH", NumArg(0)), Ins("CALL_NATIVE", NumArg(2))>>
                     [] arg = "Number" -> <<Ins("BIPUSH", NumArg(1))>>
                     [] arg = "Nil" -> <<Ins("LOAD_NIL", NoArg)>>
                     [] arg = "Boolean" -> <<Ins("LOAD_TRUE", NoArg)>>
                     [] arg = "Array" -> <<Ins("BUILD_LIST", NumArg(0))>>)
                  \o <<Ins("CALL_NATIVE", NumArg(6)), Ins("END", NoArg)>>]>>]

\* a run that ends in a runtime error, raised in main (depth 0), in a function
\* main calls (1) or in a function that function calls (2):
\*   fun g() { return E; }  fun f() { return g(); }  f();
\* with E one of 1 / 1, 1 - nil, 1 / 0, [1][2] and int(input(0)) on the line "a"
MaxCallDepth == 2

AbortErrors == {"none", "TypeErr", "ZeroDivErr", "IndexError", "ValueErr"}

AbortPrograms == [kind : {"abort"}, err : AbortErrors, depth : 0..MaxCallDepth, line : {<<97>>}]

AbortExpression(err) ==
    CASE err = "none" -> BinOpNode("DivNode", Num(1), Num(1))
      [] err = "TypeErr" -> BinOpNode("SubNode", Num(1), PrimaryNode("NilNode", STR_nil))
      [] err = "ZeroDivErr" -> BinOpNode("DivNode", Num(1), Num(0))
      [] err = "IndexError" -> ArrayAccessNode(ArrayNode(<<Num(1)>>), Num(2))
      [] err = "ValueErr" ->
            FunctionCallNode(Id("int"), <<FunctionCallNode(Id("input"), <<Num(0)>>)>>)

FunctionNames == <<"f", "g", "h", "k">>

\* the declarations, innermost function first: the innermost returns E, every
\* other one returns the call of the one declared before it
AbortFunctions(src) ==
    [j \in 1..src.depth |->
        FunDeclNode(Id(FunctionNames[src.depth - j + 1]), <<>>,
                    BlockNode(<<ReturnNode(IF j = 1 THEN AbortExpression(src.err)
                                           ELSE FunctionCallNode(Id(FunctionNames[src.depth - j + 2]),
                                                                 <<>>))>>))]

AbortProgram(src) ==
    ProgramNode(AbortFunctions(src)
                \o <<IF src.depth = 0 THEN AbortExpression(src.err)
                     ELSE FunctionCallNode(Id("f"), <<>>)>>)

\* fun f(p1, .., pn) { return pk; }  f(a1, .., an);
BindPrograms == {b \in [kind : {"bind"}, n : 1..MaxParams, k : 1..MaxParams] : b.k <= b.n}

\* var g = 1; fun f() { var x = 5; g = 7; return g + x; }  f(); g;
GlobalProgram1 ==
    ProgramNode(<<
        VarDeclNode(Id("g"), Num(1)),
        FunDeclNode(Id("f"), <<>>, BlockNode(<<
            VarDeclNode(Id("x"), Num(5)),
            AssignNode(Id("g"), Num(7)),
            ReturnNode(BinOpNode("AddNode", Id("g"), Id("x")))>>)),
        FunctionCallNode(Id("f"), <<>>),
        Id("g")>>)

\* var g = 1; var h = 2; fun k() { var y = 3; h = 9; return h; }
\* fun f() { var x = 5; g = k(); return g + x; }  f(); h = 4; g + h;
GlobalProgram2 ==
    ProgramNode(<<
        VarDeclNode(Id("g"), Num(1)),
        VarDeclNode(Id("h"), Num(2)),
        FunDeclNode(Id("k"), <<>>, BlockNode(<<
            VarDeclNode(Id("y"), Num(3)),
            AssignNode(Id("h"), Num(9)),
            ReturnNode(Id("h"))>>)),
        FunDeclNode(Id("f"), <<>>, BlockNode(<<
            VarDeclNode(Id("x"), Num(5)),
            AssignNode(Id("g"), FunctionCallNode(Id("k"), <<>>)),
            ReturnNode(BinOpNode("AddNode", Id("g"), Id("x")))>>)),
        FunctionCallNode(Id("f"), <<>>),
        AssignNode(Id("h"), Num(4)),
        BinOpNode("AddNode", Id("g"), Id("h"))>>)

\* var b = 0;
\* for (var i = 0; i < n; i = i + 1) { b = b + 1; if (b == k) continue; }
\* with the continue as the statement of the if or in a block of its own; the
\* tree of the for statement is the one _for builds of its clauses
MaxIterations == 2

ContinuePrograms ==
    [kind : {"continue"}, n : 0..MaxIterations, k : 0..(MaxIterations + 1),
     arm : {"statement", "block"}]

Increment(name) == AssignNode(Id(name), BinOpNode("AddNode", Id(name), Num(1)))

ContinueProgram(src) ==
    LET arm  == IF src.arm = "block" THEN BlockNode(<<ContinueNode(0)>>) ELSE ContinueNode(0)
        skip == IfNode(ConditionalNode(BinOpNode("EqualNode", Id("b"), Num(src.k)), arm),
                       <<>>, NoneNode)
    IN ProgramNode(<<VarDeclNode(Id("b"), Num(0)),
                     ForResult(VarDeclNode(Id("i"), Num(0)),
                               BinOpNode("LessThanNode", Id("i"), Num(src.n)),
                               ForBlock(Increment("i"),
                                        BlockNode(<<Increment("b"), skip>>)))>>)

\* var a = [0]; var b = 0; for (var i = 0; i < n; i = i + 1) { STMT }
\* with STMT one of  println(i);  a[0] = i;  i;  b = i;
BalanceStatements == {"println", "store", "expression", "assign"}

BalancePrograms == [kind : {"balance"}, n : 0..MaxIterations, stmt : BalanceStatements]

BalanceProgram(src) ==
    LET stmt == CASE src.stmt = "println" -> FunctionCallNode(Id("println"), <<Id("i")>>)
                  [] src.stmt = "store" -> AssignNode(ArrayAccessNode(Id("a"), Num(0)), Id("i"))
                  [] src.stmt = "expression" -> Id("i")
                  [] src.stmt = "assign" -> AssignNode(Id("b"), Id("i"))
    IN ProgramNode(<<VarDeclNode(Id("a"), ArrayNode(<<Num(0)>>)), VarDeclNode(Id("b"), Num(0)),
                     ForResult(VarDeclNode(Id("i"), Num(0)),
                               BinOpNode("LessThanNode", Id("i"), Num(src.n)),
                               ForBlock(Increment("i"), BlockNode(<<stmt>>)))>>)

\* var r = 0; var d = 0;
\* if (c1) r = r + 2; elsif (c2) r = r + 4; elsif (c3) r = r + 8; else r = r + 1;
\* d = d + 1;
\* with one to MaxArms conditions, each of them false, true, 0 or 1, with or
\* without the else, the arms statements or blocks
MaxArms == 3

ArmConditions ==
    {PrimaryNode("FalseNode", STR_false), PrimaryNode("TrueNode", STR_true), Num(0), Num(1)}

IfPrograms ==
    [kind : {"if"}, conds : SeqsUpTo(ArmConditions, MaxArms) \ {<<>>}, else : BOOLEAN,
     blocks : BOOLEAN]

\* what arm j adds to r; the else arm adds 1
RECURSIVE ArmWeight(_)
ArmWeight(j) == IF j = 0 THEN 1 ELSE 2 * ArmWeight(j - 1)

AddTo(name, n) == AssignNode(Id(name), BinOpNode("AddNode", Id(name), Num(n)))

IfProgram(src) ==
    LET body(j) == IF src.blocks THEN BlockNode(<<AddTo("r", ArmWeight(j))>>)
                   ELSE AddTo("r", ArmWeight(j))
        arm(j) == ConditionalNode(src.conds[j], body(j))
    IN ProgramNode(<<VarDeclNode(Id("r"), Num(0)), VarDeclNode(Id("d"), Num(0)),
                     IfNode(arm(1), [j \in 1..(Len(src.conds) - 1) |-> arm(j + 1)],
                            IF src.else THEN body(0) ELSE NoneNode),
                     AddTo("d", 1)>>)

\* var g = 1;  fun f() { g = v; }  f();      for v in 0..MaxNum, the body of f
\* with or without a `return 0;` behind the assignment, the assignment in f or
\* in a function h that f calls
AssignPrograms == [kind : {"assign"}, v : 0..MaxNum, ret : BOOLEAN, depth : {1, 2}]

AssignProgram(src) ==
    LET ret == IF src.ret THEN <<ReturnNode(Num(0))>> ELSE <<>>
        assigns(name) ==
            FunDeclNode(Id(name), <<>>, BlockNode(<<AssignNode(Id("g"), Num(src.v))>> \o ret))
    IN ProgramNode(<<VarDeclNode(Id("g"), Num(1))>>
                   \o (IF src.depth = 1 THEN <<assigns("f")>>
                       ELSE <<assigns("h"),
                              FunDeclNode(Id("f"), <<>>,
                                          BlockNode(<<FunctionCallNode(Id("h"), <<>>)>> \o ret))>>)
                   \o <<FunctionCallNode(Id("f"), <<>>)>>)

\* the syntax tree of a described program
ProgramOf(src) ==
    CASE src.kind = "and/or" ->
            ProgramNode(<<FunDeclNode(Id("f"), <<>>,
                                      BlockNode(<<ReturnNode(PrimaryNode("TrueNode", STR_true))>>)),
                          BinOpNode(src.op, src.L, src.R)>>)
      [] src.kind = "bind" ->
            ProgramNode(<<FunDeclNode(Id("f"), SubSeq(ParamNames, 1, src.n),
                                      BlockNode(<<ReturnNode(Id(ParamNames[src.k]))>>)),
                          FunctionCallNode(Id("f"), [i \in 1..src.n |-> Num(ArgValue(i))])>>)
      [] src.kind = "global" -> IF src.n = 1 THEN GlobalProgram1 ELSE GlobalProgram2
      [] src.kind = "divmod" -> ProgramNode(<<BinOpNode(src.op, src.L, src.R)>>)
      [] src.kind = "arrays" -> ArrayProgram(src)
      [] src.kind = "alias" -> AliasProgram(src)
      [] src.kind = "native" -> NativeCall(src.fn)
      [] src.kind = "abort" -> AbortProgram(src)
      [] src.kind = "continue" -> ContinueProgram(src)
      [] src.kind = "if" -> IfProgram(src)
      [] src.kind = "balance" -> BalanceProgram(src)
      [] src.kind = "assign" -> AssignProgram(src)

\* functions given as text, arguments passed to a function that has no prologue:
\* main pushes 9, calls f(4, 3) and adds; f stores a local and returns a - b
TextArgs ==
    [constantPool |-> <<>>,
     functions |-> <<
        [name |-> "main", argc |-> 0, text |-> <<
            Ins("BIPUSH", NumArg(9)), Ins("BIPUSH", NumArg(4)), Ins("BIPUSH", NumArg(3)),
            Ins("CALL_FUNCTION", NumArg(1)), Ins("BINARY_ADD", NoArg),
            Ins("STORE_LOCAL", NumArg(0)), Ins("END", NoArg)>>],
        [name |-> "f", argc |-> 2, text |-> <<
            Ins("BIPUSH", NumArg(8)), Ins("STORE_LOCAL", NumArg(2)),
            Ins("LOAD_LOCAL", NumArg(0)), Ins("LOAD_LOCAL", NumArg(1)),
            Ins("BINARY_SUBTRACT", NoArg), Ins("RETURN_VALUE", NoArg)>>]>>]

\* main pushes 7, calls f(2) and adds; f(n) is n + f(n - 1) for n truthy, else 0,
\* and changes its own n before it returns
TextRecursive ==
    [constantPool |-> <<>>,
     functions |-> <<
        [name |-> "main", argc |-> 0, text |-> <<
            Ins("BIPUSH", NumArg(7)), Ins("BIPUSH", NumArg(2)),
            Ins("CALL_FUNCTION", NumArg(1)), Ins("BINARY_ADD", NoArg), Ins("END", NoArg)>>],
        [name |-> "f", argc |-> 1, text |-> <<
            Ins("LOAD_LOCAL", NumArg(0)), Ins("POP_JMP_IF_FALSE", NumArg(20)),
            Ins("LOAD_LOCAL", NumArg(0)),
            Ins("LOAD_LOCAL", NumArg(0)), Ins("BIPUSH", NumArg(1)),
            Ins("BINARY_SUBTRACT", NoArg), Ins("CALL_FUNCTION", NumArg(1)),
            Ins("BINARY_ADD", NoArg),
            Ins("BIPUSH", NumArg(0)), Ins("STORE_LOCAL", NumArg(0)),
            Ins("RETURN_VALUE", NoArg),
            Ins("BIPUSH", NumArg(0)), Ins("RETURN_VALUE", NoArg)>>]>>]

VMPrograms ==
    ShortCircuitPrograms \cup BindPrograms \cup [kind : {"global"}, n : 1..2]
    \cup [kind : {"text"}, text : {"args", "recursive"}]
    \cup DivModPrograms \cup ArrayPrograms \cup AliasPrograms
    \cup NativePrograms \cup IsIntegerPrograms \cup AbortPrograms
    \cup ContinuePrograms \cup IfPrograms \cup BalancePrograms

\* the code object of a described program
CodeOf(src) ==
    IF src.kind = "text" THEN Assemble(IF src.text = "args" THEN TextArgs ELSE TextRecursive)
    ELSE IF src.kind = "alias" /\ src.of = "param" THEN Assemble(TextAliasParam)
    ELSE IF src.kind = "native" /\ src.via = "text" THEN Assemble(TextNative(src.fn))
    ELSE IF src.kind = "isinteger" THEN Assemble(TextIsInteger(src.arg))
    ELSE Assemble(Compile(ProgramOf(src)))

(***************************************************************************)
(*                        THE SEMANTIC ANALYSER                            *)
(*                                                                         *)
(* analyser.py calls self._error at every diagnostic and defines no such   *)
(* method; Analyser_error is written from the error model of the language  *)
(* specification (a diagnostic has a kind, a message and the location of   *)
(* its token; the analyser records it and goes on).                        *)
(***************************************************************************)
\* a token with its place in the source
\* syntax tree nodes whose tokens carry a place
IdAt(name, pos) == [type |-> "IdentifierNode", token |-> name, pos |-> pos]

TokenOf(node) == TokenAt(node.token, IF "pos" \in DOMAIN node THEN node.pos ELSE 0)

\* symboltable.py: Symbol and its subclasses; argc is len(argSymbols)
TypeSymbol(t) == [name |-> t, type |-> None, argc |-> 0]

VariableSymbol(n) == [name |-> n, type |-> "variable", argc |-> 0]

FunctionSymbol(n, args) == [name |-> n, type |-> "function", argc |-> Len(args)]

\* SymbolTable.add, on the innermost table
SymbolTable_add(tables, sym) ==
    LET t == Last(tables)
    IN [tables EXCEPT ![Len(tables)] =
            [n \in DOMAIN t \cup {sym.name} |-> IF n = sym.name THEN sym ELSE t[n]]]

\* SymbolTable.get from the innermost table: None stands for no symbol
RECURSIVE SymbolTable_get(_, _, _)
SymbolTable_get(tables, s, restrict) ==
    IF tables = <<>> THEN [name |-> s, type |-> "absent", argc |-> 0]
    ELSE IF s \in DOMAIN Last(tables) THEN Last(tables)[s]
    ELSE IF restrict THEN [name |-> s, type |-> "absent", argc |-> 0]
    ELSE SymbolTable_get(Front(tables), s, FALSE)

IsNone(sym) == sym.type = "absent"

\* SemanticAnalyzer.__init__
AnalyserNew(src, program) ==
    [pc |-> "new", src |-> src, program |-> program, next |-> 1,
     tables |-> <<>>, tempArgs |-> <<>>, hadError |-> FALSE, errList |-> <<>>,
     inLoop |-> FALSE, exc |-> "none"]

\* the diagnostic kinds of self._error's first argument
ErrorKind == [n |-> "NameErr", t |-> "TypeErr", s |-> "SyntaxErr"]

\* self._error(kind, message, token)
Analyser_error(A, kind, msg, tok) ==
    [A EXCEPT !.hadError = TRUE,
              !.errList = Append(@, [kind |-> ErrorKind[kind], msg |-> msg, name |-> tok.token,
                                     pos |-> tok.pos])]

\* SemanticAnalyzer._initMainST
InitMainST(A) ==
    LET builtinTypes == <<"int", "float", "double", "string">>
        builtinFunctions == <<"print", "println", "input", "len", "int", "str", "isinteger">>
        RECURSIVE AddAll(_, _)
        AddAll(tables, syms) ==
            IF syms = <<>> THEN tables
            ELSE AddAll(SymbolTable_add(tables, Head(syms)), Tail(syms))
    IN [A EXCEPT !.tables =
            AddAll(AddAll(@, [i \in 1..Len(builtinTypes) |-> TypeSymbol(builtinTypes[i])]),
                   [i \in 1..Len(builtinFunctions) |-> FunctionSymbol(builtinFunctions[i], <<"s">>)])]

\* what a visit method returns: the analyser after it, and the (type, token) pair
VisitResult(A, typ, tok) == [A |-> A, typ |-> typ, tok |-> tok]

AnalyserRaise(A, e) == IF A.exc # "none" THEN A ELSE [A EXCEPT !.exc = e]

\* the result of a visit method that returns nothing
Nothing(A) == VisitResult(A, "nothing", NoToken)

\* `typ, tok = self.visit(..)`: unpacking None is a TypeError
Unpack(r) == IF r.typ = "nothing" THEN Nothing(AnalyserRaise(r.A, "TypeError")) ELSE r

RECURSIVE AnalyserVisit(_, _)
RECURSIVE AnalyserVisitAll(_, _)
\* `for x in nodes: self.visit(x)`
AnalyserVisitAll(A, nodes) ==
    IF nodes = <<>> THEN A ELSE AnalyserVisitAll(AnalyserVisit(A, Head(nodes)).A, Tail(nodes))

\* visit_VarDeclNode
Analyser_VarDeclNode(A, node) ==
    IF ~IsNone(SymbolTable_get(A.tables, node.id.token, TRUE))
    THEN Nothing(Analyser_error(A, "n", "duplicate definition", TokenOf(node.id)))
    ELSE LET A1 == [A EXCEPT !.tables = SymbolTable_add(@, VariableSymbol(node.id.token))]
         IN IF node.exprNode.type = "NoneType" THEN Nothing(A1)
            ELSE LET r == Unpack(AnalyserVisit(A1, node.exprNode))
                 IN IF r.typ = "function"
                    THEN Nothing(Analyser_error(r.A, "t", "cannot assign function", r.tok))
                    ELSE Nothing(r.A)

\* visit_AssignNode
Analyser_AssignNode(A, node) ==
    LET r == Unpack(AnalyserVisit(AnalyserVisit(A, node.lvalue).A, node.exprNode))
    IN IF r.typ = "function"
       THEN Nothing(Analyser_error(r.A, "t", "cannot assign function", r.tok))
       ELSE Nothing(r.A)

\* visit_IdentifierNode
Analyser_IdentifierNode(A, node) ==
    LET sym == SymbolTable_get(A.tables, node.token, FALSE)
    IN IF IsNone(sym)
       THEN VisitResult(Analyser_error(A, "n", "not declared", TokenOf(node)),
                        "identifier", TokenOf(node))
       ELSE VisitResult(A, sym.type, TokenOf(node))

\* visit_AddNode
Analyser_AddNode(A, node) ==
    LET l == Unpack(AnalyserVisit(A, node.left))
        r == Unpack(AnalyserVisit(l.A, node.right))
    IN IF /\ l.typ \notin {"variable", "call"} /\ r.typ \notin {"variable", "call"}
          /\ r.typ # l.typ
       THEN VisitResult(Analyser_error(r.A, "t", "cannot add", l.tok), l.typ, l.tok)
       ELSE VisitResult(r.A, l.typ, l.tok)

\* visit_SubNode, visit_MulNode, visit_DivNode, visit_ModNode: the same text but
\* for the message
ArithmeticMessage ==
    [SubNode |-> "cannot subtract", MulNode |-> "cannot multiply",
     DivNode |-> "cannot divide", ModNode |-> "cannot modulo"]

Analyser_SubNode(A, node) ==
    LET l == Unpack(AnalyserVisit(A, node.left))
        r == Unpack(AnalyserVisit(l.A, node.right))
    IN IF l.typ # "variable" /\ r.typ # "variable" /\ r.typ # l.typ
       THEN VisitResult(Analyser_error(r.A, "t", ArithmeticMessage[node.type], l.tok), l.typ, l.tok)
       ELSE VisitResult(r.A, l.typ, l.tok)

\* visit_WhileNode
Analyser_WhileNode(A, node) ==
    LET A1 == AnalyserVisit([A EXCEPT !.inLoop = TRUE], node.condition).A
        A2 == AnalyserVisit(A1, node.statement).A
    IN Nothing([A2 EXCEPT !.inLoop = FALSE])

\* visit_BlockNode
Analyser_BlockNode(A, node, isFunction) ==
    IF isFunction
    THEN LET s == [A EXCEPT !.tables = Append(@, <<>>)]
             RECURSIVE AddArgs(_, _)
             AddArgs(tables, args) ==
                 IF args = <<>> THEN tables
                 ELSE AddArgs(SymbolTable_add(tables, VariableSymbol(Head(args))), Tail(args))
             A1 == [s EXCEPT !.tables = AddArgs(@, A.tempArgs), !.tempArgs = <<>>]
             A2 == AnalyserVisitAll(A1, node.stmtList)
         IN Nothing([A2 EXCEPT !.tables = Front(@)])
    ELSE Nothing(AnalyserVisitAll(A, node.stmtList))

\* visit_ReturnNode
Analyser_ReturnNode(A, node) ==
    LET r == Unpack(AnalyserVisit(A, node.expr))
    IN IF r.typ = "function"
       THEN Nothing(Analyser_error(r.A, "t", "cannot return function", r.tok))
       ELSE Nothing(r.A)

\* visit_ContinueNode and visit_BreakNode
Analyser_BreakNode(A, node) ==
    IF ~A.inLoop THEN Nothing(Analyser_error(A, "s", "outside loop", node.tok)) ELSE Nothing(A)

\* visit_FunDeclNode: the name is looked up with get(name), every scope outward
Analyser_FunDeclNode(A, node) ==
    IF ~IsNone(SymbolTable_get(A.tables, node.id.token, FALSE))
    THEN Nothing(Analyser_error(A, "n", "duplicate definition", TokenOf(node.id)))
    ELSE LET tempArgs == A.tempArgs \o node.paramList
             A1 == [A EXCEPT !.tempArgs = tempArgs,
                             !.tables = SymbolTable_add(@, FunctionSymbol(node.id.token, tempArgs))]
         IN Analyser_BlockNode(A1, node.blockNode, TRUE)

\* visit_FunctionCallNode without the comparison of the counts
Analyser_FunctionCallNode_NoArity(A, node) ==
    LET n == Unpack(AnalyserVisit(A, node.nameNode))
    IN IF n.typ # "function"
       THEN VisitResult(Analyser_error(n.A, "t", "not callable", n.tok), "call", n.tok)
       ELSE VisitResult(AnalyserVisitAll(n.A, node.argList), "call", n.tok)

\* visit_FunctionCallNode
Analyser_FunctionCallNode(A, node) ==
    LET n == Unpack(AnalyserVisit(A, node.nameNode))
    IN IF n.typ # "function"
       THEN VisitResult(Analyser_error(n.A, "t", "not callable", n.tok), "call", n.tok)
       ELSE LET A1 == AnalyserVisitAll(n.A, node.argList)
                argc == Len(node.argList)
                count == SymbolTable_get(A1.tables, node.nameNode.token, FALSE).argc
            IN IF node.nameNode.type # "IdentifierNode"
               THEN Nothing(AnalyserRaise(A1, "AssertionError"))
               ELSE IF count # argc
               THEN VisitResult(Analyser_error(A1, "t", "arity", n.tok), "call", n.tok)
               ELSE VisitResult(A1, "call", n.tok)

\* NodeVisitor.visit on the analyser; an exception ends every visit under way
AnalyserVisit(A, node) ==
    IF A.exc # "none" THEN Nothing(A)
    ELSE CASE node.type = "VarDeclNode" -> Analyser_VarDeclNode(A, node)
           [] node.type = "AssignNode" -> Analyser_AssignNode(A, node)
           [] node.type = "IdentifierNode" -> Analyser_IdentifierNode(A, node)
           [] node.type = "NumberNode" -> VisitResult(A, "number", TokenOf(node))
           [] node.type \in {"TrueNode", "FalseNode"} -> VisitResult(A, "boolean", TokenOf(node))
           [] node.type = "NilNode" -> VisitResult(A, "nil", TokenOf(node))
           [] node.type = "StringNode" -> VisitResult(A, "string", TokenOf(node))
           [] node.type = "AddNode" -> Analyser_AddNode(A, node)
           [] node.type \in DOMAIN ArithmeticMessage -> Analyser_SubNode(A, node)
           [] node.type = "WhileNode" -> Analyser_WhileNode(A, node)
           [] node.type = "BlockNode" -> Analyser_BlockNode(A, node, FALSE)
           [] node.type = "ReturnNode" -> Analyser_ReturnNode(A, node)
           [] node.type \in {"ContinueNode", "BreakNode"} -> Analyser_BreakNode(A, node)
           [] node.type = "FunDeclNode" -> Analyser_FunDeclNode(A, node)
           [] node.type = "FunctionCallNode" -> Analyser_FunctionCallNode(A, node)
           [] OTHER -> Nothing(AnalyserRaise(A, "Exception"))

\* visit_ProgramNode: the main symbol table, seeded
AnalyserBegin ==
    /\ analyser.pc = "new"
    /\ analyser' = [InitMainST([analyser EXCEPT !.tables = <<<<>>>>]) EXCEPT !.pc = "declarations"]
    /\ UNCHANGED <<lexer, loader, truth, vm, parser, compiler, interp>>

\* visit_ProgramNode: one turn of `for d in node.declarationList: self.visit(d)`
AnalyserDeclaration ==
    /\ analyser.pc = "declarations"
    /\ analyser.next <= Len(analyser.program.declarationList)
    /\ LET A == AnalyserVisit(analyser, analyser.program.declarationList[analyser.next]).A
       IN analyser' = IF A.exc # "none" THEN [A EXCEPT !.pc = "raised"]
                      ELSE [A EXCEPT !.next = @ + 1]
    /\ UNCHANGED <<lexer, loader, truth, vm, parser, compiler, interp>>

\* visit_ProgramNode returns
AnalyserEnd ==
    /\ analyser.pc = "declarations"
    /\ analyser.next > Len(analyser.program.declarationList)
    /\ analyser' = [analyser EXCEPT !.pc = "returned"]
    /\ UNCHANGED <<lexer, loader, truth, vm, parser, compiler, interp>>

(***************************************************************************)
(* The programs the analyser is run on.  Every call, break, continue and   *)
(* declaration has a place of its own (pos), by which its diagnostics are  *)
(* told apart.                                                             *)
(***************************************************************************)
\* the most arguments of a call
MaxArgs == 2

\* k number literals
NumArgs(k) == [i \in 1..k |-> Num(i)]

CallAt(name, pos, args) == FunctionCallNode(IdAt(name, pos), args)

\* fun g(a) { }
\* fun f(p1, .., pn) { f(1, .., m); g(1); }       calls at 10 and 11
\* f(1, .., k);                                    call at 20
\* b(1, .., kb);                                   call at 30, b a built-in
\* g(f(1, .., k));                                 calls at 40 and 41
ArityPrograms ==
    [kind : {"arity"}, n : 0..MaxParams, m : 0..MaxArgs, k : 0..MaxArgs,
     b : {"print", "println", "input", "len", "int", "str", "isinteger"}, kb : 0..MaxArgs]

ArityProgram(src) ==
    ProgramNode(<<
        FunDeclNode(IdAt("g", 1), <<"a">>, BlockNode(<<>>)),
        FunDeclNode(IdAt("f", 2), SubSeq(ParamNames, 1, src.n), BlockNode(<<
            CallAt("f", 10, NumArgs(src.m)),
            CallAt("g", 11, NumArgs(1))>>)),
        CallAt("f", 20, NumArgs(src.k)),
        CallAt(src.b, 30, NumArgs(src.kb)),
        CallAt("g", 40, <<CallAt("f", 41, NumArgs(src.k))>>)>>)

\* the calls of an arity program: where, how many parameters the callee declares
\* and how many arguments the call passes
ArityCalls(src) ==
    {[pos |-> 10, declared |-> src.n, passed |-> src.m],
     [pos |-> 11, declared |-> 1, passed |-> 1],
     [pos |-> 20, declared |-> src.n, passed |-> src.k],
     [pos |-> 30, declared |-> 1, passed |-> src.kb],
     [pos |-> 40, declared |-> 1, passed |-> 1],
     [pos |-> 41, declared |-> src.n, passed |-> src.k]}

\* S1; while (true) { S2; while (true) { S3; } S4; } S5;
\* each Si nothing, a break or a continue at place i
LoopStatements == {"none", "break", "continue"}

LoopPrograms == [kind : {"loops"}, at : [1..5 -> LoopStatements]]

LoopStatement(src, i) ==
    IF src.at[i] = "break" THEN <<BreakNode(i)>>
    ELSE IF src.at[i] = "continue" THEN <<ContinueNode(i)>>
    ELSE <<>>

LoopProgram(src) ==
    LET true == PrimaryNode("TrueNode", STR_true)
        inner == WhileNode(true, BlockNode(LoopStatement(src, 3)))
        outer == WhileNode(true, BlockNode(LoopStatement(src, 2) \o <<inner>>
                                           \o LoopStatement(src, 4)))
    IN ProgramNode(LoopStatement(src, 1) \o <<outer>> \o LoopStatement(src, 5))

\* the places of a loop program that lie in a loop body
InLoopBody == {2, 3, 4}

\* var x; D1; fun f(p) { D2; D3; }  D4;
\* each Di nothing or the declaration `var <name>;` or `fun <name>() { }` at
\* place i, the name one of x, f, p, y
ScopeDeclarations ==
    {[decl |-> "none", name |-> "y"]}
    \cup [decl : {"var", "fun"}, name : {"x", "f", "p", "y"}]

\* (D1 does not declare f, so that f's own declaration is analysed with its body)
ScopePrograms ==
    {src \in [kind : {"scopes"}, at : [1..4 -> ScopeDeclarations]] :
        ~(src.at[1].decl # "none" /\ src.at[1].name = "f")}

ScopeDeclaration(src, i) ==
    LET d == src.at[i]
    IN IF d.decl = "var" THEN <<VarDeclNode(IdAt(d.name, i), NoneNode)>>
       ELSE IF d.decl = "fun" THEN <<FunDeclNode(IdAt(d.name, i), <<>>, BlockNode(<<>>))>>
       ELSE <<>>

ScopeProgram(src) ==
    ProgramNode(<<VarDeclNode(IdAt("x", 10), NoneNode)>> \o ScopeDeclaration(src, 1)
                \o <<FunDeclNode(IdAt("f", 11), <<"p">>,
                                 BlockNode(ScopeDeclaration(src, 2) \o ScopeDeclaration(src, 3)))>>
                \o ScopeDeclaration(src, 4))

\* the names declared in the scope of place i before the declaration at place i
RECURSIVE DeclaredBefore(_, _)
DeclaredBefore(src, i) ==
    LET here(j) == IF src.at[j].decl = "none" THEN {} ELSE {src.at[j].name}
    IN CASE i = 1 -> {"x"}
         [] i = 2 -> {"p"}
         [] i = 3 -> {"p"} \cup here(2)
         [] i = 4 -> {"x", "f"} \cup here(1)

\* var x; fun f() { }  L op R;      at places 1, 2 and 3 (L), 4 (R)
\* op one of + - * / %, each operand a literal, the variable or a call of f
ArithmeticNodes == {"AddNode", "SubNode", "MulNode", "DivNode", "ModNode"}

OperandKinds == {"number", "string", "boolean", "nil", "variable", "call"}

ArithmeticPrograms ==
    [kind : {"arithmetic"}, op : ArithmeticNodes, L : OperandKinds, R : OperandKinds]

Operand(kind, pos) ==
    CASE kind = "number"   -> [type |-> "NumberNode", token |-> "1", pos |-> pos]
      [] kind = "string"   -> [type |-> "StringNode", token |-> "s", pos |-> pos]
      [] kind = "boolean"  -> [type |-> "TrueNode", token |-> "true", pos |-> pos]
      [] kind = "nil"      -> [type |-> "NilNode", token |-> "nil", pos |-> pos]
      [] kind = "variable" -> IdAt("x", pos)
      [] kind = "call"     -> CallAt("f", pos, <<>>)

ArithmeticProgram(src) ==
    ProgramNode(<<VarDeclNode(IdAt("x", 1), NoneNode),
                  FunDeclNode(IdAt("f", 2), <<>>, BlockNode(<<>>)),
                  BinOpNode(src.op, Operand(src.L, 3), Operand(src.R, 4))>>)

AnalyserPrograms == ArityPrograms \cup LoopPrograms \cup ScopePrograms \cup ArithmeticPrograms

AnalyserProgramOf(src) ==
    CASE src.kind = "arity" -> ArityProgram(src)
      [] src.kind = "loops" -> LoopProgram(src)
      [] src.kind = "scopes" -> ScopeProgram(src)
      [] src.kind = "arithmetic" -> ArithmeticProgram(src)

(***************************************************************************)
(* PARSER (src/loks/parser/parser.py).  A node keeps the text of its token; *)
(* the parser's state is the token list, the index of the current token,   *)
(* the error flag and the error list.  Every parsing method returns the    *)
(* state it leaves and the node it built.  exc records a Python exception  *)
(* raised on the way (the tree is then never returned).                    *)
(***************************************************************************)
\* a token of the parser's input: the scanner's Token, on line 1
Tok(type, text) == Token(type, text, 1, 0)

ParserNew(tokList) ==
    [tokList |-> tokList, idx |-> 0, hadError |-> FALSE, errList |-> <<>>, exc |-> "none"]

\* self._curToken, as _advance maintains it
CurToken(P) ==
    IF P.idx >= Len(P.tokList) THEN Last(P.tokList) ELSE P.tokList[P.idx + 1]

Parsed(P, node) == [P |-> P, node |-> node]

ParserRaise(P, e) == IF P.exc = "none" THEN [P EXCEPT !.exc = e] ELSE P

\* _advance; once a Python exception is on its way (exc) nothing runs any more
Parser_advance(P) == IF P.exc # "none" THEN P ELSE [P EXCEPT !.idx = @ + 1]

Parser_peek(P) ==
    IF P.idx + 1 >= Len(P.tokList) THEN Last(P.tokList) ELSE P.tokList[P.idx + 2]

\* self._tokList[self._idx - 1]: index -1 is the last token
Parser_prevToken(P) ==
    IF P.idx = 0 \/ P.idx > Len(P.tokList) THEN Last(P.tokList) ELSE P.tokList[P.idx]

SyncTypes == {"SEMI", "EOF", "VAR", "FUNCTION", "R_PAREN", "R_CURLY", "RETURN"}

RECURSIVE Parser_sync(_)
Parser_sync(P) ==
    IF P.exc # "none" \/ CurToken(P).type \in SyncTypes THEN P ELSE Parser_sync(Parser_advance(P))

\* SyntaxErr(msg, tok.line, tok.position)
ParserSyntaxErr(msg, tok) == [msg |-> msg, tok |-> tok]

Parser_error(P, msg) ==
    IF P.exc # "none" THEN P
    ELSE Parser_sync([P EXCEPT !.hadError = TRUE,
                               !.errList = Append(@, ParserSyntaxErr(msg, CurToken(P)))])

\* _consume; self._prevToken() raises IndexError when idx - 1 is past the list
Parser_consume(P, tt) ==
    IF P.exc # "none" THEN P
    ELSE IF CurToken(P).type # tt
    THEN LET Q == [P EXCEPT !.hadError = TRUE]
             bad == IF tt = "SEMI"
                    THEN IF P.idx > Len(P.tokList)
                         THEN ParserRaise(Q, "IndexError")
                         ELSE [Q EXCEPT !.errList = Append(@, ParserSyntaxErr("Expected ;", Parser_prevToken(P)))]
                    ELSE [Q EXCEPT !.errList = Append(@, ParserSyntaxErr("Expected " \o tt, CurToken(P)))]
         IN Parser_advance(Parser_sync(bad))
    ELSE Parser_advance(P)

\* the binary levels of the expression grammar, lowest precedence first:
\* _logicOr, _logicAnd, _equality, _comparison, _term, _factor
BinaryLevels ==
    << {"OR"}, {"AND"}, {"EQUAL", "NOT_EQUAL"},
       {"GREATER_THAN", "GREATER_THAN_EQ", "LESS_THAN", "LESS_THAN_EQ"},
       {"PLUS", "MINUS"}, {"MUL", "DIV", "MOD"} >>

BinaryNodeOf ==
    [OR |-> "OrNode", AND |-> "AndNode", EQUAL |-> "EqualNode", NOT_EQUAL |-> "NotEqualNode",
     GREATER_THAN |-> "GreaterThanNode", GREATER_THAN_EQ |-> "GreaterThanEqualNode",
     LESS_THAN |-> "LessThanNode", LESS_THAN_EQ |-> "LessThanEqualNode",
     PLUS |-> "AddNode", MINUS |-> "SubNode",
     MUL |-> "MulNode", DIV |-> "DivNode", MOD |-> "ModNode"]

\* FalseNode defines __init instead of __init__ (abstractSyntaxTree.py:267) and
\* so is built by PrimaryNode.__init__, which it inherits
LiteralNodeOf ==
    ("TRUE" :> "TrueNode") @@ ("FALSE" :> "FalseNode") @@ ("NIL" :> "NilNode") @@
    ("NUMBER" :> "NumberNode") @@ ("STRING" :> "StringNode") @@ ("ID" :> "IdentifierNode")

\* the node classes whose __init__ calls super().__init(..), a name Python
\* mangles to _<Class>__init, which no class defines: building one raises
\* AttributeError (abstractSyntaxTree.py:160-210, 226, 231)
BrokenNodes ==
    {"EqualNode", "NotEqualNode", "GreaterThanNode", "GreaterThanEqualNode", "LessThanNode",
     "LessThanEqualNode", "AddNode", "SubNode", "MulNode", "DivNode", "ModNode",
     "NotNode", "NegationNode"}

\* l = XNode(l, r)   and   n = XNode(n)
NewNode(P, node) ==
    IF P.exc # "none" THEN Parsed(P, NoneNode)
    ELSE IF node.type \in BrokenNodes THEN Parsed(ParserRaise(P, "AttributeError"), NoneNode)
    ELSE Parsed(P, node)

\* the methods call one another by name through Parse (defined after them)
RECURSIVE Parse(_, _)
RECURSIVE Parser_binary(_, _)
RECURSIVE Parser_binaryLoop(_, _, _)
RECURSIVE Parser_array_accessLoop(_, _)
RECURSIVE Parser_argumentsLoop(_, _)

Parser_expression(P) == Parser_binary(P, 1)

\* l = next level; while the current token is an operator of this level: l = Node(l, next level)
Parser_binary(P, level) ==
    IF level > Len(BinaryLevels)
    THEN Parse("unary", P)
    ELSE LET l == Parser_binary(P, level + 1)
         IN Parser_binaryLoop(l.P, level, l.node)

Parser_binaryLoop(P, level, l) ==
    IF P.exc = "none" /\ CurToken(P).type \in BinaryLevels[level]
    THEN LET r == Parser_binary(Parser_advance(P), level + 1)
             n == NewNode(r.P, BinOpNode(BinaryNodeOf[CurToken(P).type], l, r.node))
         IN Parser_binaryLoop(n.P, level, n.node)
    ELSE Parsed(P, l)

Parser_array_access(P) ==
    LET p == Parse("call", P) IN Parser_array_accessLoop(p.P, p.node)

Parser_unary(P) ==
    IF CurToken(P).type = "NOT"
    THEN LET n == Parse("unary", Parser_advance(P)) IN NewNode(n.P, UnaryOpNode("NotNode", n.node))
    ELSE IF CurToken(P).type = "MINUS"
    THEN LET n == Parse("unary", Parser_advance(P)) IN NewNode(n.P, UnaryOpNode("NegationNode", n.node))
    ELSE Parse("array_access", P)

Parser_array_accessLoop(P, p) ==
    IF P.exc = "none" /\ CurToken(P).type = "L_SQUARE"
    THEN LET e == Parse("expression", Parser_advance(P))
         IN Parser_array_accessLoop(Parser_consume(e.P, "R_SQUARE"), ArrayAccessNode(p, e.node))
    ELSE Parsed(P, p)

Parser_arguments(P) ==
    LET e == Parse("expression", P) IN Parser_argumentsLoop(e.P, <<e.node>>)

Parser_argumentsLoop(P, argList) ==
    IF P.exc = "none" /\ CurToken(P).type = "COMMA"
    THEN LET e == Parse("expression", Parser_advance(P))
         IN Parser_argumentsLoop(e.P, Append(argList, e.node))
    ELSE Parsed(P, argList)

Parser_call(P) ==
    LET p == Parse("primary", P)
    IN IF CurToken(p.P).type = "L_PAREN"
       THEN LET Q == Parser_advance(p.P)
                a == IF CurToken(Q).type # "R_PAREN" THEN Parse("arguments", Q) ELSE Parsed(Q, <<>>)
            IN Parsed(Parser_consume(a.P, "R_PAREN"), FunctionCallNode(p.node, a.node))
       ELSE p

Parser_primary(P) ==
    LET t == CurToken(P)
    IN IF t.type \in DOMAIN LiteralNodeOf
       THEN Parsed(Parser_advance(P), PrimaryNode(LiteralNodeOf[t.type], t.value))
       ELSE IF t.type = "L_PAREN"
       THEN LET e == Parse("expression", Parser_advance(P))
            IN Parsed(Parser_consume(e.P, "R_PAREN"), e.node)
       ELSE IF t.type = "L_SQUARE"
       THEN LET Q == Parser_advance(P)
            IN IF CurToken(Q).type = "R_SQUARE"
               THEN Parsed(Parser_consume(Q, "R_SQUARE"), ArrayNode(<<>>))
               ELSE LET a == Parse("arguments", Q)
                    IN Parsed(Parser_consume(a.P, "R_SQUARE"), ArrayNode(a.node))
       ELSE Parsed(Parser_error(P, "Expected expression"), NoneNode)

Parser_varDecl(P) ==
    LET P1 == Parser_consume(P, "VAR")
        id == CurToken(P1)
        P2 == Parser_consume(P1, "ID")
        e  == IF CurToken(P2).type = "ASSIGN"
              THEN Parse("expression", Parser_consume(P2, "ASSIGN"))
              ELSE Parsed(P2, NoneNode)
    IN Parsed(Parser_consume(e.P, "SEMI"), VarDeclNode(Id(id.value), e.node))

Parser_exprStmt(P) ==
    LET e == Parse("expression", P) IN Parsed(Parser_consume(e.P, "SEMI"), e.node)

Parser_assignStmt(P) ==
    LET id  == CurToken(P)
        aac == IF Parser_peek(P).type = "L_SQUARE"
               THEN Parse("array_access", P)
               ELSE Parsed(Parser_consume(P, "ID"), NoneNode)
        e   == Parse("expression", Parser_consume(aac.P, "ASSIGN"))
    IN Parsed(Parser_consume(e.P, "SEMI"),
              IF aac.node # NoneNode THEN AssignNode(aac.node, e.node)
                                     ELSE AssignNode(Id(id.value), e.node))

Parser_return(P) ==
    LET t  == CurToken(P)
        P1 == Parser_consume(P, "RETURN")
        e  == IF CurToken(P1).type # "SEMI" THEN Parse("expression", P1) ELSE Parsed(P1, NoneNode)
    IN Parsed(Parser_consume(e.P, "SEMI"),
              ReturnNode(IF e.node = NoneNode THEN PrimaryNode("NilNode", t.value) ELSE e.node))

Parser_continue(P) ==
    Parsed(Parser_consume(Parser_consume(P, "CONTINUE"), "SEMI"), ContinueNode(0))

Parser_break(P) ==
    Parsed(Parser_consume(Parser_consume(P, "BREAK"), "SEMI"), BreakNode(0))

Parser_parameters(P) ==
    LET RECURSIVE loop(_, _)
        loop(Q, paramList) ==
            IF Q.exc = "none" /\ CurToken(Q).type = "COMMA"
            THEN LET Q1 == Parser_advance(Q)
                 IN loop(Parser_consume(Q1, "ID"), Append(paramList, CurToken(Q1)))
            ELSE Parsed(Q, paramList)
    IN loop(Parser_consume(P, "ID"), <<CurToken(P)>>)

RECURSIVE Parser_blockLoop(_, _)

Parser_block(P) ==
    LET b == Parser_blockLoop(Parser_consume(P, "L_CURLY"), <<>>)
    IN Parsed(Parser_consume(b.P, "R_CURLY"), BlockNode(b.node))

Parser_blockLoop(P, stmtList) ==
    IF P.exc = "none" /\ CurToken(P).type \notin {"R_CURLY", "EOF"}
    THEN LET d == Parse("declaration", P) IN Parser_blockLoop(d.P, Append(stmtList, d.node))
    ELSE Parsed(P, stmtList)

\* FunDeclNode defines __init instead of __init__ (abstractSyntaxTree.py:46), so
\* FunDeclNode(id, params, bl) raises TypeError
Parser_funDecl(P) ==
    LET P1 == Parser_consume(Parser_consume(Parser_consume(P, "FUNCTION"), "ID"), "L_PAREN")
        ps == IF CurToken(P1).type # "R_PAREN" THEN Parse("parameters", P1) ELSE Parsed(P1, <<>>)
        bl == Parse("block", Parser_consume(ps.P, "R_PAREN"))
    IN Parsed(ParserRaise(bl.P, "TypeError"), NoneNode)

Parser_ifStmt(P) ==
    LET RECURSIVE elsifLoop(_, _)
        elsifLoop(Q, elsifArr) ==
            IF Q.exc = "none" /\ CurToken(Q).type = "ELSEIF"
            THEN LET c == Parse("expression", Parser_consume(Parser_consume(Q, "ELSEIF"), "L_PAREN"))
                     b == Parse("statement", Parser_consume(c.P, "R_PAREN"))
                 IN elsifLoop(b.P, Append(elsifArr, ConditionalNode(c.node, b.node)))
            ELSE Parsed(Q, elsifArr)
        ifCond == Parse("expression", Parser_consume(Parser_consume(P, "IF"), "L_PAREN"))
        ifBlk  == Parse("statement", Parser_consume(ifCond.P, "R_PAREN"))
        elsifs == elsifLoop(ifBlk.P, <<>>)
        elseSt == IF CurToken(elsifs.P).type = "ELSE"
                  THEN Parse("statement", Parser_consume(elsifs.P, "ELSE"))
                  ELSE Parsed(elsifs.P, NoneNode)
    IN Parsed(elseSt.P, IfNode(ConditionalNode(ifCond.node, ifBlk.node), elsifs.node, elseSt.node))

Parser_while(P) ==
    LET cond == Parse("expression", Parser_consume(Parser_consume(P, "WHILE"), "L_PAREN"))
        blk  == Parse("statement", Parser_consume(cond.P, "R_PAREN"))
    IN Parsed(blk.P, WhileNode(cond.node, blk.node))

\* _for: the initialiser, a var declaration, nothing, an assignment or an
\* expression statement
Parser_forInit(P1) ==
    IF CurToken(P1).type = "VAR" THEN Parse("varDecl", P1)
    ELSE IF CurToken(P1).type = "SEMI" THEN Parsed(Parser_advance(P1), NoneNode)
    ELSE IF CurToken(P1).type = "ID" THEN Parse("assignStmt", P1)
    ELSE Parse("exprStmt", P1)

\* _for: the condition, if there is one
Parser_forCond(P1) ==
    IF CurToken(P1).type # "SEMI" THEN Parse("expression", P1) ELSE Parsed(P1, NoneNode)

\* _for: the update, ID = expression, if there is one
Parser_forUpdate(P2) ==
    IF CurToken(P2).type # "R_PAREN"
    THEN LET e == Parse("expression", Parser_consume(Parser_consume(P2, "ID"), "ASSIGN"))
         IN Parsed(e.P, AssignNode(Id(CurToken(P2).value), e.node))
    ELSE Parsed(P2, NoneNode)

\* _for with the update put in front of the body's statements
Parser_for_UpdateFirst(P) ==
    LET decl == Parser_forInit(Parser_consume(Parser_consume(P, "FOR"), "L_PAREN"))
        cond == Parser_forCond(decl.P)
        upd  == Parser_forUpdate(Parser_consume(cond.P, "SEMI"))
        body == Parse("statement", Parser_consume(upd.P, "R_PAREN"))
    IN Parsed(body.P, ForResult(decl.node, cond.node, ForBlock_UpdateFirst(upd.node, body.node)))

\* _for
Parser_for(P) ==
    LET decl == Parser_forInit(Parser_consume(Parser_consume(P, "FOR"), "L_PAREN"))
        cond == Parser_forCond(decl.P)
        upd  == Parser_forUpdate(Parser_consume(cond.P, "SEMI"))
        body == Parse("statement", Parser_consume(upd.P, "R_PAREN"))
    IN Parsed(body.P, ForResult(decl.node, cond.node, ForBlock(upd.node, body.node)))

Parser_statement(P) ==
    LET t == CurToken(P).type
    IN IF t = "ID"
       THEN IF Parser_peek(P).type \in {"ASSIGN", "L_SQUARE"}
            THEN Parse("assignStmt", P) ELSE Parse("exprStmt", P)
       ELSE IF t = "IF" THEN Parse("ifStmt", P)
       ELSE IF t = "L_CURLY" THEN Parse("block", P)
       ELSE IF t = "RETURN" THEN Parse("return", P)
       ELSE IF t = "CONTINUE" THEN Parse("continue", P)
       ELSE IF t = "BREAK" THEN Parse("break", P)
       ELSE IF t = "WHILE" THEN Parse("while", P)
       ELSE IF t = "FOR" THEN Parse("for", P)
       ELSE Parse("exprStmt", P)

Parser_declaration(P) ==
    IF CurToken(P).type = "VAR" THEN Parse("varDecl", P)
    ELSE IF CurToken(P).type = "FUNCTION" THEN Parse("funDecl", P)
    ELSE Parse("statement", P)

\* a call of one of the parser's methods by its name: self.<rule>()
Parse(rule, P) ==
    CASE P.exc # "none" -> Parsed(P, NoneNode)
      [] rule = "expression" -> Parser_expression(P)
      [] rule = "array_access" -> Parser_array_access(P)
      [] rule = "unary" -> Parser_unary(P)
      [] rule = "arguments" -> Parser_arguments(P)
      [] rule = "call" -> Parser_call(P)
      [] rule = "primary" -> Parser_primary(P)
      [] rule = "varDecl" -> Parser_varDecl(P)
      [] rule = "exprStmt" -> Parser_exprStmt(P)
      [] rule = "assignStmt" -> Parser_assignStmt(P)
      [] rule = "return" -> Parser_return(P)
      [] rule = "continue" -> Parser_continue(P)
      [] rule = "break" -> Parser_break(P)
      [] rule = "parameters" -> Parser_parameters(P)
      [] rule = "block" -> Parser_block(P)
      [] rule = "funDecl" -> Parser_funDecl(P)
      [] rule = "ifStmt" -> Parser_ifStmt(P)
      [] rule = "while" -> Parser_while(P)
      [] rule = "for" -> Parser_for(P)
      [] rule = "statement" -> Parser_statement(P)
      [] rule = "declaration" -> Parser_declaration(P)

\* getAST and _program, one declaration at a time
ParserGetAST(src, tokList) ==
    [pc |-> "new", src |-> src, P |-> ParserNew(tokList), declList |-> <<>>, ast |-> NoneNode]

ParserBegin ==
    /\ parser.pc = "new"
    /\ parser' = [parser EXCEPT !.pc = "program"]
    /\ UNCHANGED <<lexer, loader, truth, vm, analyser, compiler, interp>>

ParserDeclaration ==
    /\ parser.pc = "program"
    /\ CurToken(parser.P).type # "EOF"
    /\ LET d == Parser_declaration(parser.P)
       IN parser' = IF d.P.exc # "none"
                    THEN [parser EXCEPT !.pc = "raised", !.P = d.P]
                    ELSE [parser EXCEPT !.P = d.P, !.declList = Append(@, d.node)]
    /\ UNCHANGED <<lexer, loader, truth, vm, analyser, compiler, interp>>

ParserEnd ==
    /\ parser.pc = "program"
    /\ CurToken(parser.P).type = "EOF"
    /\ parser' = [parser EXCEPT !.pc = "returned", !.ast = ProgramNode(parser.declList)]
    /\ UNCHANGED <<lexer, loader, truth, vm, analyser, compiler, interp>>

(***************************************************************************)
(* The parser's programs: one for statement, with or without each of its   *)
(* three clauses, over each kind of body, alone or between two other       *)
(* declarations; and every short list of tokens.                           *)
(***************************************************************************)
ForPrograms ==
    [kind : {"for"}, init : {"none", "var", "assign"}, cond : {"none", "lt", "or"},
     update : {"none", "assign", "or"},
     body : {"expr", "empty", "block", "break", "assign", "while", "for"},
     between : BOOLEAN]

TId(name) == Tok("ID", name)

TNum(text) == Tok("NUMBER", text)

TSemi == Tok("SEMI", ";")

\* var i = 0;   or   i = 0;   or   ;
ForInitTokens(src) ==
    CASE src.init = "var"    -> <<Tok("VAR", "var"), TId("i"), Tok("ASSIGN", "="), TNum("0"), TSemi>>
      [] src.init = "assign" -> <<TId("i"), Tok("ASSIGN", "="), TNum("0"), TSemi>>
      [] OTHER               -> <<TSemi>>

\* i < n   or   i or n
ForCondTokens(src) ==
    CASE src.cond = "lt" -> <<TId("i"), Tok("LESS_THAN", "<"), TId("n")>>
      [] src.cond = "or" -> <<TId("i"), Tok("OR", "or"), TId("n")>>
      [] OTHER           -> <<>>

\* i = i + 1   or   i = i or 1
ForUpdateTokens(src) ==
    CASE src.update = "assign" ->
            <<TId("i"), Tok("ASSIGN", "="), TId("i"), Tok("PLUS", "+"), TNum("1")>>
      [] src.update = "or" ->
            <<TId("i"), Tok("ASSIGN", "="), TId("i"), Tok("OR", "or"), TNum("1")>>
      [] OTHER -> <<>>

ForBodyTokens(src) ==
    CASE src.body = "expr"   -> <<TId("x"), TSemi>>
      [] src.body = "empty"  -> <<Tok("L_CURLY", "{"), Tok("R_CURLY", "}")>>
      [] src.body = "block"  -> <<Tok("L_CURLY", "{"), TId("x"), TSemi, TId("y"), TSemi, Tok("R_CURLY", "}")>>
      [] src.body = "break"  -> <<Tok("BREAK", "break"), TSemi>>
      [] src.body = "assign" -> <<TId("x"), Tok("ASSIGN", "="), TNum("1"), TSemi>>
      [] src.body = "while"  -> <<Tok("WHILE", "while"), Tok("L_PAREN", "("), TId("c"),
                                  Tok("R_PAREN", ")"), TId("x"), TSemi>>
      [] src.body = "for"    -> <<Tok("FOR", "for"), Tok("L_PAREN", "("), TSemi, TSemi,
                                  TId("j"), Tok("ASSIGN", "="), TId("j"), Tok("OR", "or"), TNum("1"),
                                  Tok("R_PAREN", ")"), TId("x"), TSemi>>

\* [var n = 2;]  for (init; cond; update) body  [x;]
ForTokens(src) ==
    (IF src.between
     THEN <<Tok("VAR", "var"), TId("n"), Tok("ASSIGN", "="), TNum("2"), TSemi>> ELSE <<>>)
    \o <<Tok("FOR", "for"), Tok("L_PAREN", "(")>>
    \o ForInitTokens(src) \o ForCondTokens(src) \o <<TSemi>> \o ForUpdateTokens(src)
    \o <<Tok("R_PAREN", ")")>> \o ForBodyTokens(src)
    \o (IF src.between THEN <<TId("x"), TSemi>> ELSE <<>>)
    \o <<Tok("EOF", "")>>

\* every list of up to MaxTokens tokens of these types, closed by EOF
MaxTokens == 3

TokenTypes ==
    {"ID", "SEMI", "VAR", "FUNCTION", "RETURN", "WHILE", "ASSIGN", "OR",
     "R_PAREN", "L_CURLY", "R_CURLY"}

TokenPrograms == [kind : {"tokens"}, types : SeqsUpTo(TokenTypes, MaxTokens)]

TokensOf(src) ==
    IF src.kind = "for" THEN ForTokens(src)
    ELSE [i \in 1..Len(src.types) |-> Tok(src.types[i], "x")] \o <<Tok("EOF", "")>>

ParserPrograms == ForPrograms \cup TokenPrograms

\* the trees of the clauses, written by hand
ForInitTree(src) ==
    IF src.init = "var" THEN VarDeclNode(Id("i"), PrimaryNode("NumberNode", "0"))
    ELSE AssignNode(Id("i"), PrimaryNode("NumberNode", "0"))

ForCondTree(src) ==
    CASE src.cond = "lt" -> BinOpNode("LessThanNode", Id("i"), Id("n"))
      [] src.cond = "or" -> BinOpNode("OrNode", Id("i"), Id("n"))
      [] OTHER           -> PrimaryNode("TrueNode", "true")

\* name = name + 1   or   name = name or 1
UpdateTree(name, op) ==
    AssignNode(Id(name), BinOpNode(op, Id(name), PrimaryNode("NumberNode", "1")))

ForUpdateTree(src) == UpdateTree("i", IF src.update = "or" THEN "OrNode" ELSE "AddNode")

\* the statements of the body: of a block its statements, of the nested for the
\* statements of the block it stands for, of any other statement itself
ForBodyStatements(src) ==
    CASE src.body = "expr"   -> <<Id("x")>>
      [] src.body = "empty"  -> <<>>
      [] src.body = "block"  -> <<Id("x"), Id("y")>>
      [] src.body = "break"  -> <<BreakNode(0)>>
      [] src.body = "assign" -> <<AssignNode(Id("x"), PrimaryNode("NumberNode", "1"))>>
      [] src.body = "while"  -> <<WhileNode(Id("c"), Id("x"))>>
      [] src.body = "for"    -> <<WhileNode(PrimaryNode("TrueNode", "true"),
                                            BlockNode(<<Id("x"), UpdateTree("j", "OrNode")>>))>>

(***************************************************************************)
(* The compiler at work: visit_ProgramNode, one declaration at a time,     *)
(* then getCode.                                                           *)
(***************************************************************************)
CompilerStart(src, program) ==
    [pc |-> "visiting", src |-> src, program |-> program, next |-> 1,
     C |-> CompilerNew, code |-> GetCode(CompilerNew)]

CompilerDeclaration ==
    /\ compiler.pc = "visiting"
    /\ compiler.next <= Len(compiler.program.declarationList)
    /\ LET C1 == Visit(compiler.C, compiler.program.declarationList[compiler.next])
       IN compiler' = IF C1.exc # "none"
                      THEN [compiler EXCEPT !.pc = "raised", !.C = C1]
                      ELSE [compiler EXCEPT !.C = C1, !.next = @ + 1]
    /\ UNCHANGED <<lexer, loader, truth, vm, analyser, parser, interp>>

CompilerGetCode ==
    /\ compiler.pc = "visiting"
    /\ compiler.next > Len(compiler.program.declarationList)
    /\ compiler' = [compiler EXCEPT !.pc = "done", !.code = GetCode(compiler.C)]
    /\ UNCHANGED <<lexer, loader, truth, vm, analyser, parser, interp>>

(***************************************************************************)
(* The compiler's programs: fun f(a) { S1 S2 }  fun g() { S3 }  f(1);      *)
(* with every S one of the statements below.  No statement follows one     *)
(* that always returns.                                                    *)
(***************************************************************************)
ReturnStatements == {"none", "var", "return", "if", "ifblock", "ifelse", "while"}

AlwaysReturns == {"return", "ifelse"}

ReturnPrograms ==
    {src \in [kind : {"returns"}, at : [1..3 -> ReturnStatements]] :
        src.at[1] \in AlwaysReturns => src.at[2] = "none"}

ReturnStatement(k) ==
    CASE k = "var"     -> <<VarDeclNode(Id("x"), Num(1))>>
      [] k = "return"  -> <<ReturnNode(Num(1))>>
      [] k = "if"      -> <<IfNode(ConditionalNode(Id("a"), ReturnNode(Num(1))), <<>>, NoneNode)>>
      [] k = "ifblock" -> <<IfNode(ConditionalNode(Id("a"), BlockNode(<<ReturnNode(Num(1))>>)),
                                   <<>>, NoneNode)>>
      [] k = "ifelse"  -> <<IfNode(ConditionalNode(Id("a"), ReturnNode(Num(1))), <<>>,
                                   ReturnNode(Num(2)))>>
      [] k = "while"   -> <<WhileNode(Id("a"), BlockNode(<<ReturnNode(Num(1))>>))>>
      [] OTHER         -> <<>>

ReturnProgram(src) ==
    ProgramNode(<<
        FunDeclNode(Id("f"), <<"a">>,
                    BlockNode(ReturnStatement(src.at[1]) \o ReturnStatement(src.at[2]))),
        FunDeclNode(Id("g"), <<>>, BlockNode(ReturnStatement(src.at[3]))),
        FunctionCallNode(Id("f"), <<Num(1)>>)>>)

\* G1  fun f(p) { L  n = 3;  return n; }  G2  f(1);
\* n is the parameter p (L nothing) or x (L is `var x = 2;`); G1 and G2 are
\* nothing or `var n = 1;` in main, before and after the function
LocalPrograms ==
    [kind : {"locals"}, name : {"p", "x"}, before : BOOLEAN, after : BOOLEAN]

GlobalDeclaration(src, there) ==
    IF there THEN <<VarDeclNode(Id(src.name), Num(1))>> ELSE <<>>

LocalProgram(src) ==
    ProgramNode(GlobalDeclaration(src, src.before)
                \o <<FunDeclNode(Id("f"), <<"p">>,
                        BlockNode((IF src.name = "x" THEN <<VarDeclNode(Id("x"), Num(2))>> ELSE <<>>)
                                  \o <<AssignNode(Id(src.name), Num(3)),
                                       ReturnNode(Id(src.name))>>))>>
                \o GlobalDeclaration(src, src.after)
                \o <<FunctionCallNode(Id("f"), <<Num(1)>>)>>)

\* var g = 1;  fun f() { return g; }  f();    or with  { g = 2; return 0; }  as
\* the body of f, the declaration of g in front of that of f or behind it
OrderPrograms == [kind : {"order"}, first : {"var", "fun"}, access : {"load", "store"}]

OrderProgram(src) ==
    LET var == VarDeclNode(Id("g"), Num(1))
        fun == FunDeclNode(Id("f"), <<>>,
                   BlockNode(IF src.access = "load" THEN <<ReturnNode(Id("g"))>>
                             ELSE <<AssignNode(Id("g"), Num(2)), ReturnNode(Num(0))>>))
    IN ProgramNode((IF src.first = "var" THEN <<var, fun>> ELSE <<fun, var>>)
                   \o <<FunctionCallNode(Id("f"), <<>>)>>)

\* while (c) BODY, with X a break or a continue and BODY one of
\*   block           { y; X }                body             X
\*   if              { if (a) X }            if-body          if (a) X
\*   if-block        { if (a) { X } }        nested-block     { { X } }
\*   elsif           { if (a) y; elsif (b) X }
\*   else            { if (a) y; else X }    if-if            { if (a) if (b) X }
\*   inner-while     { while (d) { X } }
ExitShapes ==
    {"block", "body", "if", "if-body", "if-block", "nested-block", "elsif", "else", "if-if",
     "inner-while"}

ExitPrograms == [kind : {"exits"}, exit : {"break", "continue"}, shape : ExitShapes]

ExitProgram(src) ==
    LET X == IF src.exit = "break" THEN BreakNode(0) ELSE ContinueNode(0)
        If(c, st) == IfNode(ConditionalNode(Id(c), st), <<>>, NoneNode)
        body ==
          CASE src.shape = "block"        -> BlockNode(<<Id("y"), X>>)
            [] src.shape = "body"         -> X
            [] src.shape = "if"           -> BlockNode(<<If("a", X)>>)
            [] src.shape = "if-body"      -> If("a", X)
            [] src.shape = "if-block"     -> BlockNode(<<If("a", BlockNode(<<X>>))>>)
            [] src.shape = "nested-block" -> BlockNode(<<BlockNode(<<X>>)>>)
            [] src.shape = "elsif"        ->
                  BlockNode(<<IfNode(ConditionalNode(Id("a"), Id("y")),
                                     <<ConditionalNode(Id("b"), X)>>, NoneNode)>>)
            [] src.shape = "else"         ->
                  BlockNode(<<IfNode(ConditionalNode(Id("a"), Id("y")), <<>>, X)>>)
            [] src.shape = "if-if"        -> BlockNode(<<If("a", If("b", X))>>)
            [] src.shape = "inner-while"  -> BlockNode(<<WhileNode(Id("d"), BlockNode(<<X>>))>>)
    IN ProgramNode(<<WhileNode(Id("c"), body)>>)

CompilerPrograms == ReturnPrograms \cup LocalPrograms \cup ExitPrograms \cup OrderPrograms

CompilerProgramOf(src) ==
    CASE src.kind = "returns" -> ReturnProgram(src)
      [] src.kind = "locals" -> LocalProgram(src)
      [] src.kind = "exits" -> ExitProgram(src)
      [] src.kind = "order" -> OrderProgram(src)

(***************************************************************************)
(* == and != in the two back-ends                                          *)
(***************************************************************************)
\* Interpeter.visit_EqualNode / visit_NotEqualNode on the values of the two
\* operands
AllowedTypes == {"Nil", "Number", "Boolean", "String"}

Interp_EqualNode(l, r) ==
    IF GetObjType(l) \notin AllowedTypes \/ GetObjType(r) \notin AllowedTypes
    THEN [err |-> "TypeErr", val |-> Nil]
    ELSE [err |-> "none", val |-> Bool(PyEq(l.value, r.value))]

Interp_NotEqualNode(l, r) ==
    IF GetObjType(l) \notin AllowedTypes \/ GetObjType(r) \notin AllowedTypes
    THEN [err |-> "TypeErr", val |-> Nil]
    ELSE [err |-> "none", val |-> Bool(~PyEq(l.value, r.value))]

\* the values compared: 0, 1, the strings "", "nil", "true", "false", "0", "1",
\* true, false, nil, the arrays [] and [nil], a function
EqualValues ==
    {Number(IntVal(0)), Number(IntVal(1))}
    \cup {String(str) : str \in {<<>>, STR_nil, STR_true, STR_false, <<48>>, <<49>>}}
    \cup {Boolean(STR_true), Boolean(STR_false), Nil}
    \cup {Array(<<>>), Array(<<Nil>>), Function("f", <<>>, "block")}

NoResult == [err |-> "unset", val |-> Nil]

EqualNew(op, l, r) == [op |-> op, l |-> l, r |-> r, vm |-> NoResult, interp |-> NoResult]

\* a machine whose current frame holds the two operands, l pushed first; an
\* array is an object of the machine's heap
EqualMachine(l, r) ==
    LET ref(obj, n) == IF GetObjType(obj) = "Array" THEN ArrayObject(n) ELSE obj
        els(obj) == IF GetObjType(obj) = "Array" THEN obj.arr ELSE <<>>
    IN [VMNew([kind |-> "equal"], [const_pool |-> <<>>, func_pool |-> <<>>])
            EXCEPT !.stacks[0] = <<ref(l, 1), ref(r, 2)>>, !.arrays = <<els(l), els(r)>>]

\* the machine executes CMPEQ / CMPNE on the two values
EqualVM ==
    /\ truth.vm = NoResult
    /\ LET V == IF truth.op = "EqualNode" THEN execute_CMPEQ(EqualMachine(truth.l, truth.r))
                ELSE execute_CMPNE(EqualMachine(truth.l, truth.r))
       IN truth' = [truth EXCEPT !.vm = [err |-> V.err,
                                         val |-> IF V.err = "none" THEN Last(V.stacks[0]) ELSE Nil]]
    /\ UNCHANGED <<lexer, loader, vm, analyser, parser, compiler, interp>>

\* the tree-walker visits the EqualNode / NotEqualNode of two operands with
\* these values
EqualInterp ==
    /\ truth.interp = NoResult
    /\ truth' = [truth EXCEPT !.interp = IF truth.op = "EqualNode"
                                         THEN Interp_EqualNode(truth.l, truth.r)
                                         ELSE Interp_NotEqualNode(truth.l, truth.r)]
    /\ UNCHANGED <<lexer, loader, vm, analyser, parser, compiler, interp>>

(***************************************************************************)
(*                          THE TREE-WALKER                                *)
(* Interpeter (interpreter.py) over the frames of memory.py.  The frames   *)
(* are objects: interp.frames holds them, the call stack and _curFrame     *)
(* name them by their place in it.  The visit methods for arrays, strings, *)
(* operators and built-in calls are not run by the programs below and are  *)
(* left out.                                                               *)
(***************************************************************************)
\* what a visit method returns besides a value of the language: None, the
\* strings "continue" and "break", True and False
PyNone == [type |-> "NoneType"]

PyStr(s) == [type |-> "str", value |-> s]

PyTruth(b) == [type |-> "bool", value |-> b]

\* v == "continue", v == "break"
IsStr(v, s) == v.type = "str" /\ v.value = s

\* v != None and str(v) != "nil": of the values a visit returns only Nil() has
\* the text nil
NotNoneNotNil(v) == v.type # "NoneType" /\ v.type # "Nil"

\* bool(v): None and False are falsy, the strings here and every object truthy
PyBoolOf(v) == ~(v.type = "NoneType" \/ (v.type = "bool" /\ ~v.value))

\* memory.py: ActivationRecord(typ) with its Environment, no member yet
ActivationRecord(typ) == [type |-> typ, members |-> [n \in {} |-> PyNone], enclosingEnv |-> 0]

\* Environment.get along the enclosing environments: the frame of the caller
RECURSIVE Environment_get(_, _, _)
Environment_get(frames, id, name) ==
    IF frames[id].enclosingEnv = 0
    THEN IF name \in DOMAIN frames[id].members THEN frames[id].members[name] ELSE PyNone
    ELSE IF name \in DOMAIN frames[id].members /\ frames[id].members[name].type # "NoneType"
         THEN frames[id].members[name]
    ELSE Environment_get(frames, frames[id].enclosingEnv, name)

\* Environment.__setitem__ on the frame id
Environment_set(I, id, name, value) ==
    [I EXCEPT !.frames[id].members =
        [n \in (DOMAIN @) \cup {name} |-> IF n = name THEN value ELSE @[n]]]

IRaise(I, e) == IF I.err # "none" THEN I ELSE [I EXCEPT !.err = e]

\* what a visit hands back: the interpreter after it and the value returned
IR(I, v) == [I |-> I, v |-> v]

RECURSIVE Interp_visit(_, _)
RECURSIVE Interp_BlockFrom(_, _, _)
RECURSIVE Interp_WhileLoop(_, _)

\* visit_VarDeclNode with the value of the expression
Interp_VarDeclNode(r, node) ==
    IF r.I.err # "none" THEN r
    ELSE IR(Environment_set(r.I, r.I.curFrame, node.id.token, r.v), PyNone)

\* visit_AssignNode with the value of the expression: the name is set in the
\* current frame
Interp_AssignNode(r, node) ==
    IF r.I.err # "none" THEN r
    ELSE IF node.lvalue.type = "IdentifierNode"
         THEN IR(Environment_set(r.I, r.I.curFrame, node.lvalue.token, r.v), PyNone)
    ELSE IR(r.I, PyNone)

\* visit_BlockNode: what follows the visit of statement k
Interp_BlockNext(r, node, k) ==
    IF r.I.err # "none" THEN r
    ELSE IF IsStr(r.v, "continue") THEN IR(r.I, PyStr("continue"))
    ELSE IF IsStr(r.v, "break") THEN IR(r.I, PyStr("break"))
    ELSE IF NotNoneNotNil(r.v) THEN r
    ELSE IF node.stmtList[k].type = "ReturnNode" THEN r
    ELSE Interp_BlockFrom(r.I, node, k + 1)

\* visit_BlockNode: the loop over the statements from statement k on
Interp_BlockFrom(I, node, k) ==
    IF k > Len(node.stmtList) THEN IR(I, Nil)
    ELSE Interp_BlockNext(Interp_visit(I, node.stmtList[k]), node, k)

\* visit_ConditionalNode behind the visit of the statement
Interp_ConditionalDone(r, node) ==
    IF r.I.err # "none" THEN r
    ELSE IF IsStr(r.v, "continue") THEN IR(r.I, PyStr("continue"))
    ELSE IF IsStr(r.v, "break") THEN IR(r.I, PyStr("break"))
    ELSE IF node.statement.type = "ReturnNode" THEN r
    ELSE IF NotNoneNotNil(r.v) THEN r
    ELSE IR(r.I, PyTruth(TRUE))

\* visit_ConditionalNode with the value of the condition
Interp_ConditionalNode(c, node) ==
    IF c.I.err # "none" THEN c
    ELSE IF Interp_isTruthy(c.v) THEN Interp_ConditionalDone(Interp_visit(c.I, node.statement), node)
    ELSE IR(c.I, PyTruth(FALSE))

\* visit_IfNode with the result of the if block: when it is falsy the method
\* reads node.elsifBloks, an attribute IfNode does not have
Interp_IfNode(r, node) ==
    IF r.I.err # "none" THEN r
    ELSE IF ~PyBoolOf(r.v) THEN IR(IRaise(r.I, "AttributeError"), PyNone)
    ELSE IF r.v.type # "bool" THEN r
    ELSE IR(r.I, PyNone)

\* visit_WhileNode: the statement is visited, then the condition, and only
\* then the result of the statement is looked at
Interp_WhileAgain(res, c, node) ==
    IF c.I.err # "none" THEN c
    ELSE IF res.type # "Nil" /\ ~IsStr(res, "continue") /\ PyBoolOf(res) THEN IR(c.I, res)
    ELSE Interp_WhileLoop(c, node)

Interp_WhileBody(r, node) ==
    IF r.I.err # "none" THEN r
    ELSE Interp_WhileAgain(r.v, Interp_visit(r.I, node.condition), node)

Interp_WhileLoop(c, node) ==
    IF c.I.err # "none" THEN c
    ELSE IF Interp_isTruthy(c.v) THEN Interp_WhileBody(Interp_visit(c.I, node.statement), node)
    ELSE IR(c.I, PyNone)

\* visit_ReturnNode
Interp_ReturnNode(I, node) ==
    IF I.frames[I.curFrame].type # "function" THEN IR(IRaise(I, "SyntaxErr"), PyNone)
    ELSE Interp_visit(I, node.expr)

\* visit_FunDeclNode
Interp_FunDeclNode(I, node) ==
    IR(Environment_set(I, I.curFrame, node.id.token,
                       Function(node.id.token, node.paramList, node.blockNode)), PyNone)

\* newFrame[a] = self.visit(f)
Interp_CallArg(r, new, name) ==
    IF r.I.err # "none" THEN r.I ELSE Environment_set(r.I, new, name, r.v)

\* visit_FunctionCallNode: the arguments are visited in the caller's frame and
\* set in the new frame, parameter k with argument k
RECURSIVE Interp_CallArgs(_, _, _, _, _)
Interp_CallArgs(I, new, funObj, node, k) ==
    IF I.err # "none" \/ k > Len(funObj.args) \/ k > Len(node.argList) THEN I
    ELSE Interp_CallArgs(Interp_CallArg(Interp_visit(I, node.argList[k]), new, funObj.args[k]),
                         new, funObj, node, k + 1)

\* visit_FunctionCallNode behind the visit of the function's block: the frame
\* is popped and the caller's is current again
Interp_CallDone(r) ==
    IF r.I.err # "none" THEN r
    ELSE IR([r.I EXCEPT !.callStack = Front(@),
                        !.curFrame = r.I.callStack[Len(r.I.callStack) - 1]], r.v)

\* visit_FunctionCallNode with the new frame filled: push it and visit the block
Interp_CallBlock(I, new, funObj) ==
    IF I.err # "none" THEN IR(I, PyNone)
    ELSE Interp_CallDone(Interp_visit([I EXCEPT !.callStack = Append(@, new), !.curFrame = new],
                                      funObj.block))

\* visit_FunctionCallNode for a function of the program
Interp_FunctionCallNode(I, node) ==
    LET funObj == Environment_get(I.frames, I.curFrame, node.nameNode.token)
        new == Len(I.frames) + 1
        I1 == [I EXCEPT !.frames = Append(@, [ActivationRecord("function")
                                                 EXCEPT !.enclosingEnv = I.curFrame])]
    IN IF funObj.type # "Function" THEN IR(IRaise(I1, "AttributeError"), PyNone)
       ELSE Interp_CallBlock(Interp_CallArgs(I1, new, funObj, node, 1), new, funObj)

\* NodeVisitor.visit: the method named after the node's class
Interp_visit(I, node) ==
    IF I.err # "none" THEN IR(I, PyNone)
    ELSE CASE node.type = "NumberNode" -> IR(I, Number(IntVal(node.token)))
           [] node.type = "NilNode" -> IR(I, Nil)
           [] node.type = "TrueNode" -> IR(I, Boolean(STR_true))
           [] node.type = "FalseNode" -> IR(I, Boolean(STR_false))
           [] node.type = "IdentifierNode" ->
                 IR(I, Environment_get(I.frames, I.curFrame, node.token))
           [] node.type = "VarDeclNode" ->
                 IF node.exprNode.type = "NoneType" THEN Interp_VarDeclNode(IR(I, Nil), node)
                 ELSE Interp_VarDeclNode(Interp_visit(I, node.exprNode), node)
           [] node.type = "AssignNode" -> Interp_AssignNode(Interp_visit(I, node.exprNode), node)
           [] node.type = "BlockNode" -> Interp_BlockFrom(I, node, 1)
           [] node.type = "ContinueNode" -> IR(I, PyStr("continue"))
           [] node.type = "BreakNode" -> IR(I, PyStr("break"))
           [] node.type = "ConditionalNode" ->
                 Interp_ConditionalNode(Interp_visit(I, node.condition), node)
           [] node.type = "IfNode" -> Interp_IfNode(Interp_visit(I, node.ifBlock), node)
           [] node.type = "WhileNode" -> Interp_WhileLoop(Interp_visit(I, node.condition), node)
           [] node.type = "ReturnNode" -> Interp_ReturnNode(I, node)
           [] node.type = "FunDeclNode" -> Interp_FunDeclNode(I, node)
           [] node.type = "FunctionCallNode" -> Interp_FunctionCallNode(I, node)
           [] OTHER -> IR(IRaise(I, "Exception"), PyNone)

\* var a = 0; var b = 0; var c = true;  and then, S being
\*   plain        { a = 1; b = 1; }
\*   nil          { a = 1; nil; b = 1; }
\*   number       { a = 1; 2; b = 1; }
\*   true         { a = 1; true; b = 1; }
\*   variable     { a = 1; a; b = 1; }
\*   call-nil     fun f() { }            { a = 1; f(); b = 1; }
\*   call         fun f() { return 2; }  { a = 1; f(); b = 1; }
\*   return       fun f() { return 1; return 2; }  { a = f(); b = 1; }
\*   if           { if (true) a = 1; b = 1; }
\*   if-false     { a = 1; if (false) a = 2; b = 1; }
\*   continue     { while (c) { c = false; a = 1; continue; a = 2; } b = 1; }
\*   break        { while (c) { a = 1; break; a = 2; } b = 1; }
\*   if-break     { while (c) { a = 1; if (true) break; a = 2; } b = 1; }
\*   inner-break  while (c) { c = false; while (true) { a = 1; break; } b = 1; }
\*   top-break    while (c) { a = 1; break; }  b = 1;
\* every one of them ought to end with a = 1 and b = 1
BlockShapes ==
    {"plain", "nil", "number", "true", "variable", "call-nil", "call", "return", "if", "if-false",
     "continue", "break", "if-break", "inner-break", "top-break"}

BlockPrograms == [kind : {"block"}, shape : BlockShapes]

BlockProgram(src) ==
    LET set(name, n) == AssignNode(Id(name), Num(n))
        True == PrimaryNode("TrueNode", STR_true)
        False == PrimaryNode("FalseNode", STR_false)
        If(c, st) == IfNode(ConditionalNode(c, st), <<>>, NoneNode)
        with(e) == <<BlockNode(<<set("a", 1), e, set("b", 1)>>)>>
        fun(stmts) == FunDeclNode(Id("f"), <<>>, BlockNode(stmts))
        loop(stmts) == WhileNode(Id("c"), BlockNode(stmts))
        then ==
          CASE src.shape = "plain" -> <<BlockNode(<<set("a", 1), set("b", 1)>>)>>
            [] src.shape = "nil" -> with(PrimaryNode("NilNode", STR_nil))
            [] src.shape = "number" -> with(Num(2))
            [] src.shape = "true" -> with(True)
            [] src.shape = "variable" -> with(Id("a"))
            [] src.shape = "call-nil" -> <<fun(<<>>)>> \o with(FunctionCallNode(Id("f"), <<>>))
            [] src.shape = "call" ->
                  <<fun(<<ReturnNode(Num(2))>>)>> \o with(FunctionCallNode(Id("f"), <<>>))
            [] src.shape = "return" ->
                  <<fun(<<ReturnNode(Num(1)), ReturnNode(Num(2))>>),
                    BlockNode(<<AssignNode(Id("a"), FunctionCallNode(Id("f"), <<>>)),
                                set("b", 1)>>)>>
            [] src.shape = "if" -> <<BlockNode(<<If(True, set("a", 1)), set("b", 1)>>)>>
            [] src.shape = "if-false" -> with(If(False, set("a", 2)))
            [] src.shape = "continue" ->
                  <<BlockNode(<<loop(<<AssignNode(Id("c"), False), set("a", 1), ContinueNode(0),
                                       set("a", 2)>>),
                                set("b", 1)>>)>>
            [] src.shape = "break" ->
                  <<BlockNode(<<loop(<<set("a", 1), BreakNode(0), set("a", 2)>>), set("b", 1)>>)>>
            [] src.shape = "if-break" ->
                  <<BlockNode(<<loop(<<set("a", 1), If(True, BreakNode(0)), set("a", 2)>>),
                                set("b", 1)>>)>>
            [] src.shape = "inner-break" ->
                  <<loop(<<AssignNode(Id("c"), False),
                           WhileNode(True, BlockNode(<<set("a", 1), BreakNode(0)>>)),
                           set("b", 1)>>)>>
            [] src.shape = "top-break" -> <<loop(<<set("a", 1), BreakNode(0)>>), set("b", 1)>>
    IN ProgramNode(<<VarDeclNode(Id("a"), Num(0)), VarDeclNode(Id("b"), Num(0)),
                     VarDeclNode(Id("c"), True)>> \o then)

InterpPrograms == AssignPrograms \cup BlockPrograms

InterpProgramOf(src) == IF src.kind = "assign" THEN AssignProgram(src) ELSE BlockProgram(src)

\* Interpeter.__init__; src describes the program
InterpNew(src, program) ==
    [pc |-> "new", src |-> src, program |-> program, next |-> 1, err |-> "none",
     frames |-> <<>>, callStack |-> <<>>, curFrame |-> 0]

\* visit_ProgramNode: the main frame is made, pushed and made current
InterpBegin ==
    /\ interp.pc = "new"
    /\ interp' = [interp EXCEPT !.pc = "visiting", !.frames = <<ActivationRecord("main")>>,
                                !.callStack = <<1>>, !.curFrame = 1]
    /\ UNCHANGED <<lexer, loader, truth, vm, analyser, parser, compiler>>

\* visit_ProgramNode: self.visit(d) for the next declaration; its value is dropped
InterpDeclaration ==
    /\ interp.pc = "visiting"
    /\ interp.next <= Len(interp.program.declarationList)
    /\ LET r == Interp_visit(interp, interp.program.declarationList[interp.next])
       IN interp' = IF r.I.err # "none" THEN [r.I EXCEPT !.pc = "raised"]
                    ELSE [r.I EXCEPT !.next = @ + 1]
    /\ UNCHANGED <<lexer, loader, truth, vm, analyser, parser, compiler>>

\* visit_ProgramNode: the main frame is popped; _curFrame still names it
InterpEnd ==
    /\ interp.pc = "visiting"
    /\ interp.next > Len(interp.program.declarationList)
    /\ interp' = [interp EXCEPT !.pc = "done", !.callStack = Front(@)]
    /\ UNCHANGED <<lexer, loader, truth, vm, analyser, parser, compiler>>

\* the other components, at rest
LoaderIdle == [pc |-> "idle"]
TruthIdle == [pc |-> "idle"]
VMIdle == [pc |-> "idle"]
CompilerIdle == [pc |-> "idle"]
ParserIdle == [pc |-> "idle"]
AnalyserIdle == [pc |-> "idle"]
InterpIdle == [pc |-> "idle"]

InitLexer ==
    /\ lexer \in {LexerNew(inp) : inp \in LexInputs}
    /\ loader = LoaderIdle
    /\ truth = TruthIdle
    /\ vm = VMIdle
    /\ analyser = AnalyserIdle
    /\ parser = ParserIdle
    /\ compiler = CompilerIdle
    /\ interp = InterpIdle

NextLexer == LexLoopHead \/ LexLineComment \/ LexBlockComment

SpecLexer == InitLexer /\ [][NextLexer]_vars

\* getTokens runs to completion once called: single-threaded, nothing else to schedule
FairSpecLexer == SpecLexer /\ WF_vars(NextLexer)

(***************************************************************************)
(* Claims about the scanner.                                               *)
(***************************************************************************)
LexerIdle == [pc |-> "idle"]

InitLoader ==
    /\ loader \in UNION {{LoaderNew(c, im) : im \in ImagesOf(c)} : c \in CodeObjects}
    /\ lexer = LexerIdle
    /\ truth = TruthIdle
    /\ vm = VMIdle
    /\ analyser = AnalyserIdle
    /\ parser = ParserIdle
    /\ compiler = CompilerIdle
    /\ interp = InterpIdle

NextLoader == LoaderInitCode \/ LoaderMakeConstPool \/ LoaderMakeFuncPool

SpecLoader == InitLoader /\ [][NextLoader]_vars

InitTruth ==
    /\ truth \in {TruthNew(obj) : obj \in TruthValues}
    /\ lexer = LexerIdle
    /\ loader = LoaderIdle
    /\ vm = VMIdle
    /\ analyser = AnalyserIdle
    /\ parser = ParserIdle
    /\ compiler = CompilerIdle
    /\ interp = InterpIdle

NextTruth == TruthVM \/ TruthInterp

SpecTruth == InitTruth /\ [][NextTruth]_vars

InitVM ==
    /\ vm \in {VMNew(src, CodeOf(src)) : src \in VMPrograms}
    /\ lexer = LexerIdle
    /\ loader = LoaderIdle
    /\ truth = TruthIdle
    /\ analyser = AnalyserIdle
    /\ parser = ParserIdle
    /\ compiler = CompilerIdle
    /\ interp = InterpIdle

NextVM == VMInitVM \/ VMStep \/ VMHalt

SpecVM == InitVM /\ [][NextVM]_vars

InitAnalyser ==
    /\ analyser \in {AnalyserNew(src, AnalyserProgramOf(src)) : src \in AnalyserPrograms}
    /\ lexer = LexerIdle
    /\ loader = LoaderIdle
    /\ truth = TruthIdle
    /\ vm = VMIdle
    /\ parser = ParserIdle
    /\ compiler = CompilerIdle
    /\ interp = InterpIdle

NextAnalyser == AnalyserBegin \/ AnalyserDeclaration \/ AnalyserEnd

SpecAnalyser == InitAnalyser /\ [][NextAnalyser]_vars

InitParser ==
    /\ \E src \in ParserPrograms : parser = ParserGetAST(src, TokensOf(src))
    /\ lexer = LexerIdle
    /\ loader = LoaderIdle
    /\ truth = TruthIdle
    /\ vm = VMIdle
    /\ analyser = AnalyserIdle
    /\ compiler = CompilerIdle
    /\ interp = InterpIdle

NextParser == ParserBegin \/ ParserDeclaration \/ ParserEnd

SpecParser == InitParser /\ [][NextParser]_vars

InitCompiler ==
    /\ \E src \in CompilerPrograms : compiler = CompilerStart(src, CompilerProgramOf(src))
    /\ lexer = LexerIdle
    /\ loader = LoaderIdle
    /\ truth = TruthIdle
    /\ vm = VMIdle
    /\ analyser = AnalyserIdle
    /\ parser = ParserIdle
    /\ interp = InterpIdle

NextCompiler == CompilerDeclaration \/ CompilerGetCode

SpecCompiler == InitCompiler /\ [][NextCompiler]_vars

InitEqual ==
    /\ truth \in {EqualNew(op, l, r) : op \in {"EqualNode", "NotEqualNode"},
                                       l \in EqualValues, r \in EqualValues}
    /\ lexer = LexerIdle
    /\ loader = LoaderIdle
    /\ vm = VMIdle
    /\ analyser = AnalyserIdle
    /\ parser = ParserIdle
    /\ compiler = CompilerIdle
    /\ interp = InterpIdle

NextEqual == EqualVM \/ EqualInterp

SpecEqual == InitEqual /\ [][NextEqual]_vars

InitInteger ==
    /\ loader \in {IntegerNew(pat \o rest) : pat \in IntegerPatterns, rest \in IntegerRests}
    /\ lexer = LexerIdle
    /\ truth = TruthIdle
    /\ vm = VMIdle
    /\ analyser = AnalyserIdle
    /\ parser = ParserIdle
    /\ compiler = CompilerIdle
    /\ interp = InterpIdle

NextInteger == LoaderMakeInteger

SpecInteger == InitInteger /\ [][NextInteger]_vars

InitPools ==
    /\ loader \in UNION {{LoaderNew(c, im) : im \in TagImagesOf(c)} : c \in CodeObjects}
    /\ lexer = LexerIdle
    /\ truth = TruthIdle
    /\ vm = VMIdle
    /\ analyser = AnalyserIdle
    /\ parser = ParserIdle
    /\ compiler = CompilerIdle
    /\ interp = InterpIdle

SpecPools == InitPools /\ [][NextLoader]_vars

\* the two back-ends, each given the same program that assigns to a global
\* inside a called function
InitBackends ==
    /\ \E src \in AssignPrograms :
          /\ vm = VMNew(src, CodeOf(src))
          /\ interp = InterpNew(src, ProgramOf(src))
    /\ lexer = LexerIdle
    /\ loader = LoaderIdle
    /\ truth = TruthIdle
    /\ analyser = AnalyserIdle
    /\ parser = ParserIdle
    /\ compiler = CompilerIdle

NextInterp == InterpBegin \/ InterpDeclaration \/ InterpEnd

NextBackends == NextVM \/ NextInterp

SpecBackends == InitBackends /\ [][NextBackends]_vars

\* the tree-walker alone, on the programs made for it
InitInterp ==
    /\ interp \in {InterpNew(src, InterpProgramOf(src)) : src \in InterpPrograms}
    /\ lexer = LexerIdle
    /\ loader = LoaderIdle
    /\ truth = TruthIdle
    /\ vm = VMIdle
    /\ analyser = AnalyserIdle
    /\ parser = ParserIdle
    /\ compiler = CompilerIdle

SpecInterp == InitInterp /\ [][NextInterp]_vars

CountType(toks, t) == Cardinality({i \in 1..Len(toks) : toks[i].type = t})

LexReturnedTokens == lexer.pc = "done" /\ lexer.ret = "tokList"

EndsWithSingleEOF(toks) ==
    /\ Len(toks) >= 1
    /\ Last(toks).type = "EOF"
    /\ CountType(toks, "EOF") = 1

\* C6 (tokenization totality): for every input string getTokens returns, and the
\* token list it returns ends with an EOF token and holds no other EOF token.
C6_TokenizationTotality ==
    <>(LexReturnedTokens /\ EndsWithSingleEOF(lexer.tokList))

\* C7 (scanner error recovery): an illegal character yields exactly one
\* IllegalCharacter diagnostic and scanning continues, so the identifiers around
\* it are all in the returned token list: two for `a $ a`, one for `$ a`.
C7_ScannerErrorRecovery ==
    (LexReturnedTokens /\ lexer.inpstr \in {<<"a", " ", "$", " ", "a">>, <<"$", " ", "a">>})
    => /\ CountType(lexer.tokList, "ID") = (IF lexer.inpstr[1] = "a" THEN 2 ELSE 1)
       /\ Len(lexer.errList) = 1
       /\ lexer.errList[1].type = "Illegal Character Error"
       /\ lexer.errList[1].arg = "$"

(***************************************************************************)
(*                      PROPERTIES OF THE LOADER                           *)
(***************************************************************************)
LoaderFinished == loader.pc \in {"returned", "raised"}

\* the first four bytes as a big-endian u32
MagicOf(image) == image[1] * 16777216 + image[2] * 65536 + image[3] * 256 + image[4]

BadMagic == Len(loader.image) >= 4 /\ MagicOf(loader.image) # magic_number

\* the image is the whole layout of the code object it was made from
WholeImage == loader.image = Serialize(loader.orig)

\* the image has the magic number and stops short of the layout's end
TruncatedImage ==
    /\ Len(loader.image) < Len(Serialize(loader.orig))
    /\ loader.image = SubSeq(Serialize(loader.orig), 1, Len(loader.image))

\* C8 (bytecode round-trip): loading the image laid out from a code object
\* returns, and returns a code object with the same constants (tags and values,
\* in order) and the same functions (argc and code bytes).
C8_BytecodeRoundTrip ==
    (WholeImage /\ LoaderFinished)
    => /\ loader.pc = "returned"
       /\ loader.const_pool = loader.orig.const_pool
       /\ loader.func_pool = loader.orig.func_pool

\* C9 (bad magic): once _initCode has run on an image whose first four bytes are
\* not 0x4D69686F the load has raised InvalidBytecodeError, and neither pool has
\* an entry.
C9_BadMagicRejected ==
    (BadMagic /\ loader.pc # "_initCode")
    => /\ loader.pc = "raised"
       /\ loader.err = "InvalidBytecodeError"
       /\ loader.const_pool = <<>>
       /\ loader.func_pool = <<>>

\* a bad-magic image long enough to reach the magic comparison has been rejected
C9_Witness ==
    /\ BadMagic
    /\ Len(loader.image) >= 10
    /\ loader.pc = "raised"
    /\ loader.err = "InvalidBytecodeError"

\* C10 (truncated image): a load of an image with the right magic number that
\* ends before its declared contents ends by raising InvalidBytecodeError: no
\* other exception, and no code object returned.
C10_TruncatedRejected ==
    (TruncatedImage /\ LoaderFinished)
    => /\ loader.pc = "raised"
       /\ loader.err = "InvalidBytecodeError"

(***************************************************************************)
(*                       PROPERTIES OF TRUTHINESS                          *)
(***************************************************************************)
\* C5 (truthiness): on every value the VM's _isTruthy and the tree-walker's
\* _isTruthy return the same result, and that result is the specification's
\* table (Nil, false, zero, "", [] and every Function falsy; all else truthy).
C5_TruthinessAgrees ==
    (truth.vm # "unset" /\ truth.interp # "unset")
    => /\ truth.vm = truth.interp
       /\ truth.vm = PyBool(SpecTruthy(truth.obj))

(***************************************************************************)
(* Properties of the virtual machine                                       *)
(***************************************************************************)
\* the frame the machine runs in is main's
InMain == vm.cur_frame.local_vars = vm.main_frame.local_vars

\* the operand byte of the instruction about to be executed
OperandByte == vm.cur_frame.code[vm.ip + 2]

\* the bytes main's code holds for an expression compiled on its own
BytesOf(node) ==
    Len(Assemble(Compile(ProgramNode(<<node>>))).func_pool[1].code) - opcodeSizeDict["END"]

\* in  L and R  a falsy L, in  L or R  a truthy L, decides the result
LeftDecides(src) ==
    LET l == src.L.type
        truthy == l = "TrueNode" \/ (l = "NumberNode" /\ src.L.token # 0)
    IN IF src.op = "AndNode" THEN ~truthy ELSE truthy

\* C1: in a compiled and executed  L and R  whose L is falsy, and  L or R  whose
\* L is truthy, no instruction of R is executed: no step of the machine executes
\* a byte of R's code in main or an instruction of a function R calls.
C1_ShortCircuit ==
    [][(/\ vm.src.kind = "and/or" /\ LeftDecides(vm.src)
        /\ vm.pc = "run" /\ vm.cur_ins # opcode.END) =>
           /\ vm.call_stack = <<>>
           /\ ~(vm.ip >= BytesOf(vm.src.L) /\ vm.ip < BytesOf(vm.src.L) + BytesOf(vm.src.R))]_vars

\* the frames that stay on the call stack over a step stay as they are: the same
\* frame, the same operand stack, the same locals but for STORE_GLOBAL into main's
FramesAtRest ==
    \A d \in 1..Min(Len(vm.call_stack), Len(vm'.call_stack)) :
        LET F == vm.call_stack[d]
        IN /\ vm'.call_stack[d] = F
           /\ vm'.stacks[F.operand_stack] = vm.stacks[F.operand_stack]
           /\ \/ vm'.locals[F.local_vars] = vm.locals[F.local_vars]
              \/ /\ vm.cur_ins = opcode.STORE_GLOBAL
                 /\ F.local_vars = vm.main_frame.local_vars

\* a call that succeeds: F goes on the call stack with the call's address, its
\* operand stack without the arguments, its locals as they were; the callee has
\* a stack and locals of its own, the arguments in its first slots
CallStep ==
    (vm.pc = "run" /\ vm.cur_ins = opcode.CALL_FUNCTION /\ vm'.err = "none") =>
        LET F == vm.cur_frame
            st == vm.stacks[F.operand_stack]
            argc == vm.code_obj.func_pool[OperandByte + 1].argc
        IN /\ vm'.call_stack = Append(vm.call_stack, [F EXCEPT !.ret_address = vm.ip + 1])
           /\ vm'.stacks[F.operand_stack] = SubSeq(st, 1, Len(st) - argc)
           /\ vm'.locals[F.local_vars] = vm.locals[F.local_vars]
           /\ vm'.cur_frame.operand_stack \notin DOMAIN vm.stacks
           /\ vm'.cur_frame.local_vars \notin DOMAIN vm.locals
           /\ \A n \in 1..argc :
                 vm'.locals[vm'.cur_frame.local_vars][n - 1] = st[Len(st) - argc + n]

\* the matching return: F is current again, the call stack is as deep as before
\* the call, F's operand stack has the return value on top of what the call left,
\* its locals are as they were, and the next instruction is the one after the call
ReturnStep ==
    (/\ vm.pc = "run" /\ vm.cur_ins = opcode.RETURN_VALUE
     /\ vm.call_stack # <<>> /\ vm.stacks[vm.cur_frame.operand_stack] # <<>>) =>
        LET F == Last(vm.call_stack)
            retVal == Last(vm.stacks[vm.cur_frame.operand_stack])
        IN /\ vm'.cur_frame = F
           /\ vm'.call_stack = Front(vm.call_stack)
           /\ vm'.stacks[F.operand_stack] = Append(vm.stacks[F.operand_stack], retVal)
           /\ vm'.locals[F.local_vars] = vm.locals[F.local_vars]
           /\ F.code[F.ret_address] = opcode.CALL_FUNCTION
           /\ vm'.ip = F.ret_address + 1
           /\ vm'.err = "none"

C3_ArgumentBinding ==
    (vm.src.kind = "bind") =>
        /\ vm.pc # "raised"
        /\ (vm.pc = "run" /\ vm.call_stack # <<>> /\ vm.ip >= 2 * vm.src.n) =>
               \A j \in 1..vm.src.n :
                   LocalGet(vm.locals[vm.cur_frame.local_vars], j - 1) =
                       Number(IntVal(ArgValue(j)))
        /\ (vm.pc = "halted") =>
               vm.stacks[vm.main_frame.operand_stack] = <<Number(IntVal(ArgValue(vm.src.k)))>>

\* STORE_GLOBAL i writes slot i of main's locals and no other frame's locals
StoreGlobalStep ==
    (vm.pc = "run" /\ vm.cur_ins = opcode.STORE_GLOBAL /\ vm'.err = "none") =>
        LET m == vm.main_frame.local_vars
            val == Last(vm.stacks[vm.cur_frame.operand_stack])
        IN /\ LocalGet(vm'.locals[m], OperandByte) = val
           /\ \A j \in 0..(FrameLocals - 1) :
                 j # OperandByte => LocalGet(vm'.locals[m], j) = LocalGet(vm.locals[m], j)
           /\ \A id \in DOMAIN vm.locals : id # m => vm'.locals[id] = vm.locals[id]

\* LOAD_GLOBAL i pushes what slot i of main's locals holds
LoadGlobalStep ==
    (vm.pc = "run" /\ vm.cur_ins = opcode.LOAD_GLOBAL /\ vm'.err = "none") =>
        LET m == vm.main_frame.local_vars
            os == vm.cur_frame.operand_stack
        IN vm'.stacks[os] = Append(vm.stacks[os], LocalGet(vm.locals[m], OperandByte))

\* main's locals are the same list throughout, and only a store into it (a
\* STORE_GLOBAL anywhere, a STORE_LOCAL in main) changes what it holds
MainLocalsStep ==
    /\ vm'.main_frame.local_vars = vm.main_frame.local_vars
    /\ (vm.pc = "run" /\ ~(vm.cur_ins = opcode.STORE_GLOBAL)
                      /\ ~(vm.cur_ins = opcode.STORE_LOCAL /\ InMain)) =>
           vm'.locals[vm.main_frame.local_vars] = vm.locals[vm.main_frame.local_vars]

AnalyserReturned == analyser.pc = "returned"

\* the diagnostics recorded for the token at a place
ErrorsAt(pos) == {i \in 1..Len(analyser.errList) : analyser.errList[i].pos = pos}

C12_BreakContinueInLoop ==
    (analyser.pc # "idle" /\ analyser.src.kind = "loops") =>
        /\ analyser.pc # "raised"
        /\ AnalyserReturned =>
              \A i \in 1..5 :
                  analyser.src.at[i] # "none" => (ErrorsAt(i) # {} <=> i \notin InLoopBody)

\* C13: a VarDecl or FunDecl is reported as a duplicate if and only if its name
\* is already declared in the current scope; a name declared only in an
\* enclosing scope may be declared again, as a variable or as a function, in a
\* function's scope.
C13_DuplicatePerScope ==
    (analyser.pc # "idle" /\ analyser.src.kind = "scopes") =>
        /\ analyser.pc # "raised"
        /\ AnalyserReturned =>
              \A i \in 1..4 :
                  analyser.src.at[i].decl # "none" =>
                      (ErrorsAt(i) # {} <=> analyser.src.at[i].name \in DeclaredBefore(analyser.src, i))

(***************************************************************************)
(* Properties of the parser                                                *)
(***************************************************************************)
\* the tree of the for statement, once its declaration has been parsed
ForTree == parser.declList[IF parser.src.between THEN 2 ELSE 1]

ForParsed == Len(parser.declList) >= (IF parser.src.between THEN 2 ELSE 1)

StatementsOf(node) == IF node.type = "BlockNode" THEN node.stmtList ELSE <<node>>

\* C14: for(init; cond; update) body parses to Block[init, While(cond, B)], B
\* holding the body's statements followed by the update as the last statement;
\* a missing cond is the literal true, a missing init or update leaves no node.
C14_ForDesugaring ==
    (parser.pc # "idle" /\ parser.src.kind = "for") =>
        /\ parser.pc # "raised"
        /\ ~parser.P.hadError
        /\ ForParsed =>
              LET src == parser.src
                  w   == Last(ForTree.stmtList)
              IN /\ ForTree.type = "BlockNode"
                 /\ Len(ForTree.stmtList) = (IF src.init = "none" THEN 1 ELSE 2)
                 /\ src.init # "none" => ForTree.stmtList[1] = ForInitTree(src)
                 /\ w.type = "WhileNode"
                 /\ w.condition = ForCondTree(src)
                 /\ StatementsOf(w.statement) =
                        ForBodyStatements(src)
                        \o (IF src.update = "none" THEN <<>> ELSE <<ForUpdateTree(src)>>)
                 /\ src.update # "none" => w.statement.type = "BlockNode"
        /\ parser.pc = "returned" =>
              Len(parser.ast.declarationList) = (IF parser.src.between THEN 3 ELSE 1)

\* for (var i = 0; i or n; i = i or 1) { x; y; } has been parsed, between two
\* other declarations, to { var i = 0; while (i or n) { x; y; i = i or 1; } }
C14_Witness ==
    /\ parser.pc = "returned"
    /\ parser.src = [kind |-> "for", init |-> "var", cond |-> "or", update |-> "or",
                     body |-> "block", between |-> TRUE]
    /\ parser.ast.declarationList[2] =
           BlockNode(<<VarDeclNode(Id("i"), PrimaryNode("NumberNode", "0")),
                       WhileNode(BinOpNode("OrNode", Id("i"), Id("n")),
                                 BlockNode(<<Id("x"), Id("y"), UpdateTree("i", "OrNode")>>))>>)

(***************************************************************************)
(* Properties of the compiler                                              *)
(***************************************************************************)
\* the instructions of a function's text: its lines but the labels' own
InstructionsOf(text) == SelectSeq(text, LAMBDA ins : ins.op # "LABEL")

\* C15: the last instruction of every compiled function other than main is
\* RETURN_VALUE, also when the source's only return statements stand in an if
\* arm or in a loop body; the code of main ends with END.
C15_FunctionsEndWithReturn ==
    compiler.pc = "done" =>
        \A i \in 1..Len(compiler.code.functions) :
            LET fn == compiler.code.functions[i]
                code == InstructionsOf(fn.text)
            IN /\ code # <<>>
               /\ Last(code).op = IF fn.name = "main" THEN "END" ELSE "RETURN_VALUE"

\* the current frame's operand stack, before and after a step
OpStack == vm.stacks[vm.cur_frame.operand_stack]

OpStackAfter == vm'.stacks[vm.cur_frame.operand_stack]

IsNumber(o) == o.type = "Number"

IsZeroNumber(o) == IF o.value.k = "int" THEN o.value.v = 0 ELSE o.value.p = 0

\* the quotient and the remainder as fractions: l = q * r + m, and for the
\* remainder 0 <= m < r or r < m <= 0
IsQuotient(res, l, r) ==
    /\ res.value.k = "float"
    /\ res.value.p * RatNum(r.value) * RatDen(l.value) = RatNum(l.value) * RatDen(r.value) * res.value.q

IsRemainder(res, l, r) ==
    LET D == RatDen(l.value) * RatDen(r.value) * RatDen(res.value)
        L == RatNum(l.value) * RatDen(r.value) * RatDen(res.value)
        R == RatNum(r.value) * RatDen(l.value) * RatDen(res.value)
        M == RatNum(res.value) * RatDen(l.value) * RatDen(r.value)
    IN /\ res.value.k = (IF l.value.k = "int" /\ r.value.k = "int" THEN "int" ELSE "float")
       /\ IF R > 0 THEN 0 <= M /\ M < R ELSE R < M /\ M <= 0
       /\ (L - M) % Abs(R) = 0

\* C16: BINARY_DIVIDE and BINARY_MODULO raise TypeError when an operand is not
\* a Number (whatever the right operand is), raise ZeroDivisionError and push
\* nothing when both are Numbers and the right one is zero, and otherwise push
\* exactly one Number, the quotient or the remainder, in place of the operands.
C16_DivideModulo ==
    [][(/\ vm.src.kind = "divmod" /\ vm.pc = "run"
        /\ vm.cur_ins \in {opcode.BINARY_DIVIDE, opcode.BINARY_MODULO}) =>
           LET r == OpStack[Len(OpStack)]
               l == OpStack[Len(OpStack) - 1]
               rest == SubSeq(OpStack, 1, Len(OpStack) - 2)
           IN /\ Len(OpStack) >= 2
              /\ IF ~IsNumber(l) \/ ~IsNumber(r)
                 THEN vm'.pc = "raised" /\ vm'.err = "TypeErr" /\ OpStackAfter = rest
                 ELSE IF IsZeroNumber(r)
                 THEN vm'.pc = "raised" /\ vm'.err = "ZeroDivErr" /\ OpStackAfter = rest
                 ELSE /\ vm'.pc = "run" /\ vm'.err = "none"
                      /\ Len(OpStackAfter) = Len(rest) + 1
                      /\ Front(OpStackAfter) = rest
                      /\ IsNumber(Last(OpStackAfter))
                      /\ IF vm.cur_ins = opcode.BINARY_DIVIDE
                         THEN IsQuotient(Last(OpStackAfter), l, r)
                         ELSE IsRemainder(Last(OpStackAfter), l, r)]_vars

\* 1 % 0 has raised ZeroDivisionError and left nothing on the operand stack
C16_Witness ==
    /\ vm.pc = "raised" /\ vm.err = "ZeroDivErr"
    /\ vm.src.kind = "divmod" /\ vm.src.op = "ModNode"
    /\ vm.src.L = Num(1) /\ vm.src.R = Num(0)
    /\ OpStack = <<>>

\* C17: BINARY_SUBSCR and STORE_SUBSCR on an array of length n with an int
\* index i raise IndexError and leave the array as it is when i < 0 or i >= n,
\* and read, respectively write, exactly element i when 0 <= i < n.
C17_ArrayBounds ==
    [][(/\ vm.src.kind = "arrays" /\ vm.pc = "run"
        /\ vm.cur_ins \in {opcode.BINARY_SUBSCR, opcode.STORE_SUBSCR}) =>
           LET idx == OpStack[Len(OpStack)]
               arr == OpStack[Len(OpStack) - 1]
               n == Len(vm.arrays[arr.ref])
               i == idx.value.v
           IN IF i < 0 \/ i >= n
              THEN /\ vm'.pc = "raised"
                   /\ vm'.err \in {"IndexErr", "IndexError"}
                   /\ vm'.arrays = vm.arrays
              ELSE /\ vm'.err = "none"
                   /\ IF vm.cur_ins = opcode.BINARY_SUBSCR
                      THEN /\ vm'.arrays = vm.arrays
                           /\ OpStackAfter = Append(SubSeq(OpStack, 1, Len(OpStack) - 2),
                                                    vm.arrays[arr.ref][i + 1])
                      ELSE vm'.arrays =
                               [vm.arrays EXCEPT ![arr.ref][i + 1] = OpStack[Len(OpStack) - 2]]]_vars

NativeExpected(src) ==
    CASE src.fn = 0 -> Returned(Nil, <<53>>)
      [] src.fn = 1 -> Returned(Nil, <<53, 10>>)
      [] src.fn = 2 -> Returned(String(src.line), <<53>>)
      [] src.fn = 3 -> Returned(Number(IntVal(2)), <<>>)
      [] src.fn = 4 -> Returned(Number(IntVal(5)), <<>>)
      [] src.fn = 5 -> Returned(String(<<53>>), <<>>)
      [] src.fn = 6 -> Returned(Boolean(STR_true), <<>>)

\* the text the compiler makes of the source call of built-in fn holds the
\* line CALL_NATIVE fn
CompilesToCallNative(fn) ==
    \E k \in 1..Len(Compile(NativeCall(fn)).functions[1].text) :
        Compile(NativeCall(fn)).functions[1].text[k] = Ins("CALL_NATIVE", NumArg(fn))

\* C18: for each of the seven built-ins (print 0, println 1, input 2, len 3,
\* int 4, str 5, isinteger 6) a source call compiles to CALL_NATIVE with the
\* built-in's index, and the machine executing CALL_NATIVE i calls that
\* built-in, pops its one argument and pushes its one result.
C18_BuiltinDispatch ==
    vm.src.kind = "native" =>
        /\ CompilesToCallNative(vm.src.fn)
        /\ vm.pc # "raised"
        /\ vm.pc = "halted" =>
              /\ vm.stacks[vm.main_frame.operand_stack] = <<NativeExpected(vm.src).val>>
              /\ vm.stdout = NativeExpected(vm.src).out

\* an optional sign and then one or more of the digits 0 to 9
SignedDecimal(s) ==
    LET digits == IF Len(s) > 0 /\ s[1] \in {43, 45} THEN Tail(s) ELSE s
    IN Len(digits) > 0 /\ \A i \in 1..Len(digits) : digits[i] \in 48..57

\* C19: isinteger returns true exactly for a String that is an optional sign
\* followed by one or more decimal digits, false for every other String (the
\* empty one and a lone sign among them), and raises TypeErr for an argument
\* that is no String.
C19_IsInteger ==
    vm.src.kind = "isinteger" =>
        IF vm.src.arg = "String"
        THEN /\ vm.pc # "raised"
             /\ vm.pc = "halted" =>
                   vm.stacks[vm.main_frame.operand_stack] = <<Bool(SignedDecimal(vm.src.line))>>
        ELSE /\ vm.pc # "halted"
             /\ vm.pc = "raised" => vm.err = "TypeErr"

\* the runtime errors of the language; an index out of range leaves the
\* subscript handlers as the IndexError of Python's list
RuntimeErrors == {"TypeErr", "ZeroDivErr", "IndexErr", "ValueErr"}

\* this step's instruction raises a runtime error, the first of the run
RaisesRuntimeError ==
    /\ vm.pc = "run" /\ vm.err = "none"
    /\ \/ vm'.err \in RuntimeErrors
       \/ vm'.err = "IndexError" /\ vm.cur_ins \in {opcode.BINARY_SUBSCR, opcode.STORE_SUBSCR}

\* run(): the exception leaves the loop
NoStepAfterError == vm.err # "none" => vm' = vm

\* the step that raises leaves no frame on the call stack
UnwoundAtError == RaisesRuntimeError => vm'.call_stack = <<>>

OpensComment(inp, i) == i < Len(inp) /\ inp[i] = "/" /\ inp[i + 1] \in {"/", "*"}

\* C22 (scanner termination): getTokens terminates on every finite input, also
\* on one that ends inside a line comment with no newline after it and on one
\* with an unterminated block comment: the rest of the input is comment and
\* the scan ends at the end of the input.
C22_ScannerTermination == <>(lexer.pc = "done")

\* the place of the first character equal to the opening quote after it, or 0
ClosingQuote(inp) ==
    IF \E j \in 2..Len(inp) : inp[j] = inp[1]
    THEN CHOOSE j \in 2..Len(inp) : inp[j] = inp[1] /\ \A k \in 2..(j - 1) : inp[k] # inp[1]
    ELSE 0

\* C23: a string literal opened with ' is closed only by the next ', one opened
\* with " only by the next ": the token's value is the text between the opening
\* quote and the next quote of the same kind, the other quote included.
C23_StringDelimiters ==
    (/\ LexReturnedTokens
     /\ Len(lexer.inpstr) >= 2 /\ lexer.inpstr[1] \in {SQ, DQ}
     /\ ClosingQuote(lexer.inpstr) # 0)
    => /\ lexer.tokList[1].type = "STRING"
       /\ lexer.tokList[1].value = StrVal(SubSeq(lexer.inpstr, 2, ClosingQuote(lexer.inpstr) - 1))

\* the newlines outside string literals among the characters i..upto of the
\* input, added to count; mode tells where character i lies: in the code, in a
\* string literal opened with the quote mode, in a line or in a block comment
RECURSIVE NewlinesOutsideStrings(_, _, _, _, _)
NewlinesOutsideStrings(inp, i, upto, mode, count) ==
    IF i > upto THEN count
    ELSE LET c == inp[i]
             next == IF i < Len(inp) THEN inp[i + 1] ELSE EOFCHAR
             seen == IF c = NL /\ mode \notin {SQ, DQ} THEN count + 1 ELSE count
         IN CASE mode = "code" /\ c \in {SQ, DQ} -> NewlinesOutsideStrings(inp, i + 1, upto, c, seen)
              [] mode = "code" /\ c = "/" /\ next = "/" ->
                    NewlinesOutsideStrings(inp, i + 2, upto, "line", seen)
              [] mode = "code" /\ c = "/" /\ next = "*" ->
                    NewlinesOutsideStrings(inp, i + 2, upto, "block", seen)
              [] mode \in {SQ, DQ} /\ c = mode -> NewlinesOutsideStrings(inp, i + 1, upto, "code", seen)
              [] mode = "line" /\ c = NL -> NewlinesOutsideStrings(inp, i + 1, upto, "code", seen)
              [] mode = "block" /\ c = "*" /\ next = "/" ->
                    NewlinesOutsideStrings(inp, i + 2, upto, "code", seen)
              [] OTHER -> NewlinesOutsideStrings(inp, i + 1, upto, mode, seen)

\* the characters the scanner has read so far: up to the current one
LexConsumed == Min(lexer.curAbsIdx + 1, Len(lexer.inpstr))

\* C24 (line tracking): at every point of the scan the line counter is 1 plus
\* the number of newlines read so far that lie outside string literals: a
\* newline inside a string literal does not count, one that directly follows
\* the closing quote of a string does.
C24_LineTracking ==
    lexer.curLine = 1 + NewlinesOutsideStrings(lexer.inpstr, 1, LexConsumed, "code", 0)

\* the parser placed on token i of its token list (0-based), with no exception
\* on its way
ParserAt(i) == [parser.P EXCEPT !.idx = i]

\* the place of the first token from i on at which _sync stops
RECURSIVE NextSync(_, _)
NextSync(tokList, i) ==
    IF i + 1 >= Len(tokList) \/ tokList[i + 1].type \in SyncTypes THEN i
    ELSE NextSync(tokList, i + 1)

\* _consume(tt) on a token of another type records one SyntaxErr and leaves
\* the parser no further than just behind the next synchronisation token
MismatchRecovers(P, tt) ==
    LET R == Parser_consume(P, tt)
    IN /\ R.exc = "none"
       /\ R.hadError
       /\ Len(R.errList) = Len(P.errList) + 1
       /\ R.idx <= NextSync(P.tokList, P.idx) + 1

\* one iteration of a declaration loop consumes a token, or ends the parse
\* with the exception of a node constructor
DeclarationConsumes(P) ==
    LET d == Parser_declaration(P)
    IN d.P.exc # "none" \/ d.P.idx > P.idx

\* C25 (parser recovery and termination): on a token list that ends with EOF
\* getAST goes on to its end without an exception of the recovery itself; at
\* every token, a mismatched _consume records a SyntaxErr and skips no further
\* than the next token of {;, EOF, var, fun, ), }, return}; and at every token
\* other than EOF one iteration of a declaration loop consumes a token.
C25_ParserRecovery ==
    (parser.pc # "idle" /\ parser.src.kind = "tokens") =>
        /\ parser.P.exc # "IndexError"
        /\ parser.pc = "program" =>
              \A i \in 0..(Len(parser.P.tokList) - 1) :
                  /\ \A tt \in TokenTypes \ {parser.P.tokList[i + 1].type} :
                        MismatchRecovers(ParserAt(i), tt)
                  /\ parser.P.tokList[i + 1].type # "EOF" => DeclarationConsumes(ParserAt(i))

\* the text of main of the program the machine runs
MainText == Compile(ProgramOf(vm.src)).functions[1].text

\* the number held by the global of that name
GlobalNumber(name) ==
    LocalGet(vm.locals[vm.main_frame.local_vars],
             IndexIn(SlotNames(MainText, <<>>), name)).value.v

\* the machine is about to evaluate the condition of the loop (label L0)
AtLoopCondition == vm.pc = "run" /\ vm.ip = LabelOffset(MainText, 0, 0)

\* b counts the iterations begun; the one in which b = k ends in continue
ContinuesTaken == IF vm.src.k >= 1 /\ GlobalNumber("b") >= vm.src.k THEN 1 ELSE 0

TypeMismatches ==
    {i \in 1..Len(analyser.errList) :
        analyser.errList[i].msg \in
            {"cannot add"} \cup {ArithmeticMessage[n] : n \in DOMAIN ArithmeticMessage}}

\* the operand kinds whose type is settled at run time only
Deferred == {"variable", "call"}

\* C27: for L op R with op one of + - * / %, the analyser reports no type
\* mismatch when an operand is a variable or a call, and reports one exactly
\* when neither is and the two kinds differ.
C27_ArithmeticMismatch ==
    (AnalyserReturned /\ analyser.src.kind = "arithmetic") =>
        LET src == analyser.src
        IN Cardinality(TypeMismatches) =
              (IF src.L \notin Deferred /\ src.R \notin Deferred /\ src.L # src.R THEN 1 ELSE 0)

\* the lines of a text that read or write the variable of that name
AccessesOf(text, name) ==
    {i \in 1..Len(text) :
        /\ text[i].op \in {"LOAD_LOCAL", "STORE_LOCAL", "LOAD_GLOBAL", "STORE_GLOBAL"}
        /\ text[i].arg = NameArg(name)}

\* the function f of a locals program has been compiled
LocalCompiled ==
    /\ compiler.src.kind = "locals"
    /\ compiler.pc = "done"

\* C28 (codegen scope rule): a name declared in a function, as a parameter or
\* by a var declaration of its body, is local to it: its declaration, its write
\* and its read in the function are STORE_LOCAL, STORE_LOCAL and LOAD_LOCAL
\* also when main declares a global of the same name; and LOAD_GLOBAL and
\* STORE_GLOBAL are emitted only for names that a var declaration of main
\* declares.
C28_LocalNames ==
    LocalCompiled =>
        LET f == FunctionText(compiler.C, "f")
        IN /\ \A i \in AccessesOf(f, compiler.src.name) : f[i].op \in {"LOAD_LOCAL", "STORE_LOCAL"}
           /\ Cardinality(AccessesOf(f, compiler.src.name)) = 3
           /\ \A fn \in {"main", "f"} : \A i \in 1..Len(FunctionText(compiler.C, fn)) :
                 FunctionText(compiler.C, fn)[i].op \in {"LOAD_GLOBAL", "STORE_GLOBAL"} =>
                    /\ compiler.src.before \/ compiler.src.after
                    /\ FunctionText(compiler.C, fn)[i].arg = NameArg(compiler.src.name)

\* the compiler is through with the while statement of an exits program
ExitCompiled == compiler.src.kind = "exits" /\ compiler.pc \in {"done", "raised"}

\* the loop-start and end labels of the innermost while around the exit:
\* visit_WhileNode takes two labels, the outer loop L0 and L1, the inner L2 and L3
ExitTarget ==
    LET loop == IF compiler.src.shape = "inner-while" THEN 2 ELSE 0
    IN LabelArg(IF compiler.src.exit = "continue" THEN loop ELSE loop + 1)

\* the jumps of a text to that label
GotosTo(text, label) == {i \in 1..Len(text) : text[i] = Ins("GOTO", label)}

\* every jump of the text goes to a label the text defines
JumpsDefined(text) ==
    \A i \in 1..Len(text) :
        text[i].op \in {"GOTO", "POP_JMP_IF_FALSE", "POP_JMP_IF_TRUE"} =>
            /\ text[i].arg.k = "label"
            /\ \E j \in 1..Len(text) : text[j] = Ins("LABEL", text[i].arg)

\* C29 (loop exits in compiled code): for a break or continue anywhere in a
\* while body, in blocks and if/elsif/else arms at any depth or as the whole
\* body, the compiler does not fail, emits no jump to an undefined label, and
\* emits for it one GOTO to the end label (break) or to the loop-start label
\* (continue, which comes on top of the loop's own closing jump) of the
\* innermost enclosing while.
C29_LoopExits ==
    ExitCompiled =>
        LET main == FunctionText(compiler.C, "main")
        IN /\ compiler.pc = "done"
           /\ JumpsDefined(main)
           /\ Cardinality(GotosTo(main, ExitTarget)) =
                 (IF compiler.src.exit = "continue" THEN 2 ELSE 1)

\* the value a condition of an if program evaluates to is truthy
ArmTruthy(j) ==
    LET c == vm.src.conds[j]
    IN VM_isTruthy(CASE c.type = "TrueNode" -> Boolean(STR_true)
                     [] c.type = "FalseNode" -> Boolean(STR_false)
                     [] OTHER -> Number(IntVal(c.token)))

\* the first arm whose condition is truthy; 0 when there is none
FirstTruthy ==
    IF \E j \in 1..Len(vm.src.conds) : ArmTruthy(j)
    THEN CHOOSE j \in 1..Len(vm.src.conds) :
            ArmTruthy(j) /\ \A i \in 1..(j - 1) : ~ArmTruthy(i)
    ELSE 0

\* the machine is about to evaluate condition j >= 2: its code begins at the
\* label the jump of arm j - 1 goes to (visit_IfNode takes L0 for the end, the
\* arms take L1, L2, ..)
AtCondition(j) == vm.pc = "run" /\ vm.ip = LabelOffset(MainText, j - 1, 0)

OperandStack(V) == V.stacks[V.cur_frame.operand_stack]

\* the step runs STORE_SUBSCR and the handler does not raise
StoresSubscr == vm.pc = "run" /\ vm.cur_ins = opcode.STORE_SUBSCR /\ vm'.pc = "run"

\* C31: STORE_SUBSCR pops index, array and value and pushes nothing: after it
\* the operand stack of the current frame is exactly three entries shorter than
\* before.
C31_StoreSubscrPopsThree ==
    [][StoresSubscr => Len(OperandStack(vm')) = Len(OperandStack(vm)) - 3]_vars

BothAllowed == GetObjType(truth.l) \in AllowedTypes /\ GetObjType(truth.r) \in AllowedTypes

IsBoolean(res) == res.err = "none" /\ GetObjType(res.val) = "Boolean"

\* C32: CMPEQ and CMPNE raise TypeError whenever an operand is an Array or a
\* Function, as the tree-walker's == and != do, and push a Boolean only when
\* both operands are Nil, Number, Boolean or String.
C32_EqualTypeError ==
    /\ truth.vm # NoResult =>
          /\ ~BothAllowed => truth.vm.err = "TypeErr"
          /\ IsBoolean(truth.vm) => BothAllowed
    /\ truth.interp # NoResult =>
          /\ ~BothAllowed => truth.interp.err = "TypeErr"
          /\ IsBoolean(truth.interp) => BothAllowed

\* C33: == of two values of different kinds, both Nil, Number, Boolean or
\* String, is false and != is true, in the machine and in the tree-walker.
C33_DifferentKindsUnequal ==
    (BothAllowed /\ GetObjType(truth.l) # GetObjType(truth.r)) =>
        \A res \in {truth.vm, truth.interp} \ {NoResult} :
            res = [err |-> "none", val |-> Bool(truth.op = "NotEqualNode")]

\* the size of the instruction whose opcode byte is b (opcodeSizeDict)
SizeOfOpcode(b) == opcodeSizeDict[CHOOSE n \in DOMAIN opcode : opcode[n] = b]

\* the offsets of the opcode bytes of a function's code, from offset at on
RECURSIVE OpcodeOffsets(_, _)
OpcodeOffsets(code, at) ==
    IF at >= Len(code) \/ ~ \E n \in DOMAIN opcode : opcode[n] = code[at + 1] THEN {}
    ELSE {at} \cup OpcodeOffsets(code, at + SizeOfOpcode(code[at + 1]))

\* the run loop is about to fetch
AtFetch(V) == V.pc = "run"

\* the 16-bit operand of the instruction at the instruction pointer
JumpTarget(V) == V.cur_frame.code[V.ip + 2] * 256 + V.cur_frame.code[V.ip + 3]

\* the instruction about to be executed is a conditional jump and it is taken
JumpTaken(V) ==
    \/ V.cur_ins = opcode.POP_JMP_IF_TRUE /\ VM_isTruthy(Last(OperandStack(V)))
    \/ V.cur_ins = opcode.POP_JMP_IF_FALSE /\ ~VM_isTruthy(Last(OperandStack(V)))

\* one turn of the run loop moves the instruction pointer as the instruction
\* executed says (a call and a return change the frame, they are left out)
IPMoves ==
    (AtFetch(vm) /\ AtFetch(vm') /\ vm.cur_ins # opcode.END) =>
        CASE vm.cur_ins = opcode.GOTO -> vm'.ip = JumpTarget(vm)
          [] vm.cur_ins \in {opcode.POP_JMP_IF_TRUE, opcode.POP_JMP_IF_FALSE} ->
                vm'.ip = IF JumpTaken(vm) THEN JumpTarget(vm) ELSE vm.ip + 3
          [] vm.cur_ins \in {opcode.CALL_FUNCTION, opcode.RETURN_VALUE} -> TRUE
          [] OTHER -> vm'.ip = vm.ip + SizeOfOpcode(vm.cur_ins)

RECURSIVE DigitsAdd(_, _)
DigitsAdd(x, y) ==
    IF x = <<>> THEN [sum |-> <<>>, carry |-> 0]
    ELSE LET low == DigitsAdd(Tail(x), Tail(y))
             here == Head(x) + Head(y) + low.carry
         IN [sum |-> <<here % 256>> \o low.sum, carry |-> here \div 256]

\* v is the two's-complement value of the 8 bytes: the bytes themselves when the
\* sign bit is clear; otherwise the negative number whose magnitude added to the
\* unsigned value of the bytes gives 2^64 (so it lies in -2^63 .. -1)
TwosComplementOf(v, bytes) ==
    IF bytes[1] < 128 THEN v = BigInt(FALSE, bytes)
    ELSE /\ v.neg
         /\ Len(v.mag) = 8
         /\ DigitsAdd(v.mag, bytes) = [sum |-> <<0, 0, 0, 0, 0, 0, 0, 0>>, carry |-> 1]

IntegerMade == loader.pc = "made"

\* C35: for every 8-byte pattern the Integer constant the loader builds is the
\* big-endian two's-complement value of the bytes, and the loader consumes
\* exactly those 8 bytes.
C35_IntegerTwosComplement ==
    /\ loader.pc # "raised"
    /\ IntegerMade =>
          /\ Len(loader.const_pool) = 1
          /\ loader.const_pool[1].tag = CONSTANT_Integer
          /\ TwosComplementOf(loader.const_pool[1].info, SubSeq(loader.image, 1, 8))
          /\ loader.code_array = SubSeq(loader.image, 9, Len(loader.image))

\* 0x8000000000000000 has been loaded as -2^63, the byte behind it is left
C35_Witness ==
    /\ IntegerMade
    /\ loader.image = <<128, 0, 0, 0, 0, 0, 0, 0, 255>>
    /\ loader.const_pool[1].info = BigInt(TRUE, <<128, 0, 0, 0, 0, 0, 0, 0>>)
    /\ loader.code_array = <<255>>

\* a statement of main has just been completed: the loop's body and update are
\* done and its condition is next, or the program is at its end
StatementDone == AtLoopCondition \/ vm.pc = "halted"

\* C36: after each complete statement the operand stack of the current frame is
\* as deep as before the statement: a loop that executes println(i), a[0] = i
\* or an expression statement k times leaves no values on the stack (main
\* begins with an empty stack, so it is empty between statements).
C36_StackBalance ==
    vm.src.kind = "balance" =>
        /\ vm.pc # "raised"
        /\ StatementDone => Len(OperandStack(vm)) = 0

\* the cp_count field of the image, behind the magic number
CpCount == loader.image[5] * 256 + loader.image[6]

\* the offset of the fp_count field: behind the entries the image holds
FpCountAt == 6 + Len(SerConsts(loader.orig.const_pool))

FpCount == loader.image[FpCountAt + 1] * 256 + loader.image[FpCountAt + 2]

ConstPoolBuilt == loader.pc \in {"_makeFuncPool", "returned"}

\* C37: when the constant pool is built it holds cp_count entries and the
\* cursor stands at the fp_count field, whatever tag bytes the entries carry;
\* when the function pool is built it holds fp_count functions, each with the
\* code_len code bytes of its entry, main first.
C37_PoolCounts ==
    /\ ConstPoolBuilt => Len(loader.const_pool) = CpCount
    /\ loader.pc = "_makeFuncPool" =>
          loader.code_array = SubSeq(loader.image, FpCountAt + 1, Len(loader.image))
    /\ loader.pc = "returned" =>
          /\ Len(loader.func_pool) = FpCount
          /\ loader.func_pool = loader.orig.func_pool

\* an order program has been compiled
OrderCompiled == compiler.src.kind = "order" /\ compiler.pc \in {"done", "raised"}

\* C38: the reference to the global g in the body of f is compiled to
\* LOAD_GLOBAL / STORE_GLOBAL whether `var g = 1;` stands in front of the
\* declaration of f or behind it.
C38_DeclarationOrder ==
    OrderCompiled =>
        /\ compiler.pc = "done"
        /\ LET f == FunctionText(compiler.C, "f")
           IN /\ Cardinality(AccessesOf(f, "g")) = 1
              /\ \A i \in AccessesOf(f, "g") :
                    f[i].op = IF compiler.src.access = "load" THEN "LOAD_GLOBAL" ELSE "STORE_GLOBAL"

\* the value the tree-walker's main frame holds for the global of that name
InterpGlobal(name) == interp.frames[1].members[name]

\* both back-ends ran the program to its end
BackendsDone == vm.pc = "halted" /\ interp.pc = "done"

\* C39: an assignment to a global inside a called function is visible in main
\* after the call has returned, and the tree-walker and the virtual machine end
\* with the same value of that global: when both have run
\* var g = 1; fun f() { g = v; } f(); to its end, g is v in both
C39_GlobalAssignmentAgrees ==
    BackendsDone =>
        /\ GlobalNumber("g") = vm.src.v
        /\ InterpGlobal("g").type = "Number"
        /\ InterpGlobal("g").value.v = GlobalNumber("g")

\* the tree-walker has run a block program to its end
BlockDone == interp.pc = "done" /\ interp.src.kind = "block"

\* the number the tree-walker's main frame holds for the marker of that name
Marker(name) == InterpGlobal(name).value.v

\* C40: a block of the tree-walker executes its statements in source order and
\* stops before its last statement only at a return, break or continue; an
\* expression statement or a call with a value other than nil does not end
\* it, and a break ends the innermost loop only, so that what follows the loop
\* in the enclosing block still runs: every block program that has run to its
\* end has set a to 1 (and never to 2, behind the break or continue) and has
\* reached b = 1, the last statement
C40_BlockRunsToItsEnd == BlockDone => Marker("a") = 1 /\ Marker("b") = 1

====
